---- MODULE Spec2Model ----
(***************************************************************************)
(* Model of the Markdown maintenance scripts formater.py,                  *)
(* fix_empty_titles.py, modify_md_titles.py and gesp_file_organizer.py.    *)
(*                                                                         *)
(* Text is modelled at character level: a Python str without newlines is a *)
(* sequence of one-character strings, and a text with newlines is the      *)
(* sequence of its lines, exactly what text.split('\n') returns (so the    *)
(* empty text is << <<>> >> and a text ending in a newline has a last      *)
(* empty line).  The empty sequence of lines stands for a missing file.    *)
(* A run of letters that no pattern of the programs looks into (a key      *)
(* name, a word of a title) is written as one token, "title" or "md".      *)
(***************************************************************************)
EXTENDS Integers, Sequences, FiniteSets, TLC

\* ------------------------------------------------------------------------
\* Strings
\* ------------------------------------------------------------------------

Digits == {"0", "1", "2", "3", "4", "5", "6", "7", "8", "9"}

\* Python's \s and str.strip() whitespace, restricted to what a line can hold
IsSpace(c) == c \in {" ", "\t"}

Drop(s, n) == SubSeq(s, n + 1, Len(s))

Take(s, n) == SubSeq(s, 1, n)

StartsWith(s, p) == Len(s) >= Len(p) /\ SubSeq(s, 1, Len(p)) = p

EndsWith(s, p) == Len(s) >= Len(p) /\ SubSeq(s, Len(s) - Len(p) + 1, Len(s)) = p

\* Python's p in s
Contains(s, p) == \E i \in 0..(Len(s) - Len(p)) : SubSeq(s, i + 1, i + Len(p)) = p

\* number of leading whitespace characters of s from position i on (greedy \s*)
RECURSIVE SpacesFrom(_, _)
SpacesFrom(s, i) == IF i <= Len(s) /\ IsSpace(s[i]) THEN 1 + SpacesFrom(s, i + 1) ELSE 0

RECURSIVE TrailingSpaces(_, _)
TrailingSpaces(s, i) == IF i >= 1 /\ IsSpace(s[i]) THEN 1 + TrailingSpaces(s, i - 1) ELSE 0

LStrip(s) == Drop(s, SpacesFrom(s, 1))

RStrip(s) == Take(s, Len(s) - TrailingSpaces(s, Len(s)))

Strip(s) == RStrip(LStrip(s))

IsDigits(s) == \A i \in 1..Len(s) : s[i] \in Digits

DigitVal(c) == CHOOSE n \in 0..9 : <<"0", "1", "2", "3", "4", "5", "6", "7", "8", "9">>[n + 1] = c

RECURSIVE ToInt(_)
ToInt(s) == IF s = <<>> THEN 0 ELSE 10 * ToInt(Take(s, Len(s) - 1)) + DigitVal(s[Len(s)])

RECURSIVE IntToStr(_)
IntToStr(n) ==
    IF n < 10 THEN << <<"0", "1", "2", "3", "4", "5", "6", "7", "8", "9">>[n + 1] >>
    ELSE IntToStr(n \div 10) \o IntToStr(n % 10)

\* ------------------------------------------------------------------------
\* Values of frontmatter fields, as yaml.safe_load produces them
\* ------------------------------------------------------------------------

VStr(s) == [t |-> "str", s |-> s, n |-> 0, l |-> <<>>]

VInt(n) == [t |-> "int", s |-> <<>>, n |-> n, l |-> <<>>]

VNull == [t |-> "null", s |-> <<>>, n |-> 0, l |-> <<>>]

\* datetime.date / datetime.datetime objects; s is what str() gives
VDate(s) == [t |-> "date", s |-> s, n |-> 0, l |-> <<>>]

VDateTime(s) == [t |-> "datetime", s |-> s, n |-> 0, l |-> <<>>]

VList(l) == [t |-> "list", s |-> <<>>, n |-> 0, l |-> l]

\* the outcome of an operation that raised the named exception
Raised(e) == [t |-> "raise", s |-> e, n |-> 0, l |-> <<>>]

\* Python truthiness: not v
Falsy(v) ==
    \/ v.t = "null"
    \/ v.t = "str" /\ v.s = <<>>
    \/ v.t = "int" /\ v.n = 0
    \/ v.t = "list" /\ v.l = <<>>

\* ------------------------------------------------------------------------
\* formater.py: clean_title
\* ------------------------------------------------------------------------

\* Characters outside ASCII are written as named one-character tokens:
\*   "LB" "RB"  the lenticular brackets U+3010 U+3011 around GESP
\*   "yi" "er" "san" "si" "wu" "liu" "qi" "ba"  the numerals U+4E00.. (1..8)
\*   "ji"  U+7EA7 (level)      "fw,"  U+FF0C (full-width comma)
\*   "zhen" "ti"  U+771F U+9898 (real exam)   "lian" "xi"  U+7EC3 U+4E60 (practice)
\*   "shi" "li"  U+793A U+4F8B (example)
\* and "dq" is the double quote.
GESP == <<"LB", "G", "E", "S", "P", "RB">>

CPP == <<"C", "+", "+">>

LevelChars == {"yi", "er", "san", "si", "wu", "liu", "qi", "ba", "1", "2", "3", "4", "5", "6", "7", "8"}

Commas == {"fw,", ","}

\* Length of the match of  ^<lead>\s*[<numeral>1-8]<ji>.*?[<fw,>,]?\s*  at the
\* start of s, or -1 when it does not match.  The lazy .*? is followed only
\* by optional items, so it always matches the empty string.
PrefixMatchLen(lead, s) ==
    IF ~StartsWith(s, lead) THEN -1
    ELSE LET a == Len(lead) + SpacesFrom(s, Len(lead) + 1)
         IN IF a + 2 <= Len(s) /\ s[a + 1] \in LevelChars /\ s[a + 2] = "ji"
            THEN LET b == a + 2
                     c == IF b + 1 <= Len(s) /\ s[b + 1] \in Commas THEN b + 1 ELSE b
                 IN c + SpacesFrom(s, c + 1)
            ELSE -1

\* re.sub(pattern, '', title) for one of the two anchored patterns
SubPrefix(lead, s) ==
    LET m == PrefixMatchLen(lead, s) IN IF m < 0 THEN s ELSE Drop(s, m)

\* clean_title without the fallback to the original title
clean_title_no_fallback(title) ==
    IF Falsy(title) THEN title
    ELSE IF title.t # "str" THEN Raised("TypeError")
    ELSE VStr(Strip(SubPrefix(GESP, SubPrefix(GESP \o CPP, title.s))))

clean_title(title) ==
    IF Falsy(title) THEN title
    ELSE IF title.t # "str" THEN Raised("TypeError")
    ELSE LET t1 == SubPrefix(GESP \o CPP, title.s)
             t2 == SubPrefix(GESP, t1)
             cleaned_title == Strip(t2)
         IN IF cleaned_title # <<>> THEN VStr(cleaned_title) ELSE title

\* ------------------------------------------------------------------------
\* yaml.safe_load / yaml.dump (PyYAML), on the block-style subset the documents
\* use: key: scalar lines at column 0, key: followed by - item lines,
\* blank lines.  Indented mappings, flow collections other than [], anchors,
\* tags, booleans, floats and timestamps with a colon in the offset are
\* outside the alphabet the inputs are drawn from.
\* ------------------------------------------------------------------------

IsBlank(s) == Strip(s) = <<>>

IsItem(s) == LET u == LStrip(s) IN u = <<"-">> \/ StartsWith(u, <<"-", " ">>)

\* position of the first ':' that ends a key (followed by a space or the end
\* of the line), 0 when there is none
ColonPos(s) ==
    LET P == {i \in 1..Len(s) : s[i] = ":" /\ (i = Len(s) \/ IsSpace(s[i + 1]))}
    IN IF P = {} THEN 0 ELSE CHOOSE i \in P : \A j \in P : i <= j

IsKV(s) == s # <<>> /\ ~IsSpace(s[1]) /\ ~IsItem(s) /\ ColonPos(s) > 1

IsQuoted(u) ==
    Len(u) >= 2 /\ u[1] \in {"'", "dq"} /\ u[Len(u)] = u[1]

\* [0-9]{4}-[0-9]{2}-[0-9]{2} at position i of s
IsYmdAt(s, i) ==
    /\ i + 9 <= Len(s)
    /\ \A k \in {0, 1, 2, 3, 5, 6, 8, 9} : s[i + k] \in Digits
    /\ s[i + 4] = "-" /\ s[i + 7] = "-"

\* [0-9]{2}:[0-9]{2} at position i of s
IsHmAt(s, i) ==
    /\ i + 4 <= Len(s)
    /\ \A k \in {0, 1, 3, 4} : s[i + k] \in Digits
    /\ s[i + 2] = ":"

\* [0-9]{2}:[0-9]{2}:[0-9]{2} at position i of s
IsHmsAt(s, i) ==
    IsHmAt(s, i) /\ i + 7 <= Len(s) /\ s[i + 5] = ":" /\ s[i + 6] \in Digits /\ s[i + 7] \in Digits

\* the implicit resolver: the Python value of a plain scalar
ResolveScalar(u) ==
    IF u = <<>> \/ u = <<"~">> \/ u = <<"null">> THEN VNull
    ELSE IF IsDigits(u) THEN VInt(ToInt(u))
    ELSE IF Len(u) = 10 /\ IsYmdAt(u, 1) THEN VDate(u)
    ELSE IF Len(u) = 19 /\ IsYmdAt(u, 1) /\ u[11] \in {"T", "t", " "} /\ IsHmsAt(u, 12)
         THEN VDateTime(Take(u, 10) \o <<" ">> \o Drop(u, 11))
    ELSE VStr(u)

\* a plain scalar the scanner rejects: a second key indicator in the value,
\* or a reserved indicator at its start
IsBadPlain(u) == ColonPos(u) > 0 \/ (u # <<>> /\ u[1] = "@")

\* the value written after key: or - 
LoadValue(u) ==
    IF IsQuoted(u) THEN VStr(SubSeq(u, 2, Len(u) - 1))
    ELSE IF u = <<"[", "]">> THEN VList(<<>>)
    ELSE IF IsBadPlain(u) THEN Raised("YAMLError")
    ELSE ResolveScalar(u)

ItemValue(s) == LoadValue(Strip(Drop(LStrip(s), 1)))

KeyOf(s) == Take(s, ColonPos(s) - 1)

ValueText(s) == Strip(Drop(s, ColonPos(s)))

\* dict semantics: a key keeps its first position and takes the last value
HasKey(e, k) == \E i \in 1..Len(e) : e[i].k = k

GetKey(e, k) == e[CHOOSE i \in 1..Len(e) : e[i].k = k].v

SetKey(e, k, v) ==
    IF HasKey(e, k) THEN [i \in 1..Len(e) |-> IF e[i].k = k THEN [k |-> k, v |-> v] ELSE e[i]]
    ELSE Append(e, [k |-> k, v |-> v])

\* number of - item lines from line i on
RECURSIVE ItemRun(_, _)
ItemRun(ls, i) == IF i <= Len(ls) /\ IsItem(ls[i]) THEN 1 + ItemRun(ls, i + 1) ELSE 0

\* the block mapping that starts at line i, added to the entries e
RECURSIVE LoadMapping(_, _, _)
LoadMapping(ls, i, e) ==
    IF i > Len(ls) THEN [t |-> "map", e |-> e]
    ELSE IF ~IsKV(ls[i]) THEN [t |-> "error", e |-> <<>>]
    ELSE LET k == KeyOf(ls[i])
             u == ValueText(ls[i])
             n == IF u = <<>> THEN ItemRun(ls, i + 1) ELSE 0
             items == [j \in 1..n |-> ItemValue(ls[i + j])]
             v == IF n > 0 THEN VList(items) ELSE LoadValue(u)
         IN IF v.t = "raise" \/ \E j \in 1..n : items[j].t = "raise"
            THEN [t |-> "error", e |-> <<>>]
            ELSE LoadMapping(ls, i + n + 1, SetKey(e, k, v))

\* yaml.safe_load(frontmatter_str): t is "map" (a dict, entries in e),
\* "none" (empty document), "list" or "scalar" (a document that is no
\* mapping), or "error" (yaml.YAMLError)
yaml_safe_load(header) ==
    LET ls == SelectSeq(header, LAMBDA s : ~IsBlank(s))
    IN IF ls = <<>> THEN [t |-> "none", e |-> <<>>]
       ELSE IF IsKV(ls[1]) THEN LoadMapping(ls, 1, <<>>)
       ELSE IF \A i \in 1..Len(ls) : IsItem(ls[i])
            THEN IF \E i \in 1..Len(ls) : ItemValue(ls[i]).t = "raise"
                 THEN [t |-> "error", e |-> <<>>] ELSE [t |-> "list", e |-> <<>>]
       ELSE IF \A i \in 1..Len(ls) : ~IsItem(ls[i]) /\ ColonPos(ls[i]) = 0 /\ ~IsBadPlain(LStrip(ls[i]))
            THEN [t |-> "scalar", e |-> <<>>]
       ELSE [t |-> "error", e |-> <<>>]

\* ------------------------------------------------------------------------
\* parse_frontmatter (formater.py, fix_empty_titles.py, gesp_file_organizer.py)
\* ------------------------------------------------------------------------

DELIM == <<"-", "-", "-">>

\* re.match(r'^---\n(.*?)\n---\n(.*)$', content, re.DOTALL): the index of the
\* line that closes the header, 0 when the pattern does not match.  The
\* header (.*?) starts on line 2 and the lazy match stops at the first line
\* from line 3 on that is exactly --- and is followed by a newline.
ClosingLine(content) ==
    LET C == {j \in 3..(Len(content) - 1) : content[j] = DELIM}
    IN IF Len(content) >= 2 /\ content[1] = DELIM /\ C # {}
       THEN CHOOSE j \in C : \A k \in C : j <= k
       ELSE 0

\* parse_frontmatter with an except clause that goes on with an empty mapping
parse_frontmatter_lenient(content) ==
    IF ClosingLine(content) = 0 THEN [fm |-> [t |-> "none", e |-> <<>>], body |-> content]
    ELSE IF yaml_safe_load(SubSeq(content, 2, ClosingLine(content) - 1)).t = "error"
    THEN [fm |-> [t |-> "map", e |-> <<>>], body |-> SubSeq(content, ClosingLine(content) + 1, Len(content))]
    ELSE [fm |-> yaml_safe_load(SubSeq(content, 2, ClosingLine(content) - 1)),
          body |-> SubSeq(content, ClosingLine(content) + 1, Len(content))]

\* returns [fm |-> the loaded header, body |-> lines]; fm.t = "none" is
\* Python's None
parse_frontmatter(content) ==
    LET j == ClosingLine(content)
    IN IF j = 0 THEN [fm |-> [t |-> "none", e |-> <<>>], body |-> content]
       ELSE LET frontmatter == yaml_safe_load(SubSeq(content, 2, j - 1))
                body == SubSeq(content, j + 1, Len(content))
            IN IF frontmatter.t = "error"
               THEN [fm |-> [t |-> "none", e |-> <<>>], body |-> content]
               ELSE [fm |-> frontmatter, body |-> body]

\* ------------------------------------------------------------------------
\* formater.py: the normalisation rules
\* ------------------------------------------------------------------------

INCLUDE == <<"{", "%", " ", "include", " ">>

\* '\n'.join of no line at all is the empty text
remove_include_lines(body) ==
    LET filtered_lines == SelectSeq(body, LAMBDA line : ~Contains(line, INCLUDE))
    IN IF body = << <<>> >> THEN body
       ELSE IF filtered_lines = <<>> THEN << <<>> >>
       ELSE filtered_lines

\* str(value), for the values a date field can hold
StrOf(v) == IF v.t = "int" THEN IntToStr(v.n) ELSE v.s

\* \+[0-9]{4} at position i of s
IsOffsetAt(s, i) ==
    i + 4 <= Len(s) /\ s[i] = "+" /\ \A k \in 1..4 : s[i + k] \in Digits

\* date_part, time_part and timezone of the first of the three patterns of
\* convert_date_format that re.match finds at the start of s; ok is FALSE
\* when none matches
DateMatch(s) ==
    LET k == SpacesFrom(s, 11) IN
    IF IsYmdAt(s, 1) /\ k >= 1 /\ IsHmAt(s, 11 + k)
    THEN LET z == 16 + k + SpacesFrom(s, 16 + k)
         IN [ok |-> TRUE, date_part |-> Take(s, 10), time_part |-> SubSeq(s, 11 + k, 15 + k),
             timezone |-> IF IsOffsetAt(s, z) THEN SubSeq(s, z, z + 4) ELSE <<>>]
    ELSE IF IsYmdAt(s, 1) /\ Len(s) >= 11 /\ s[11] = "T" /\ IsHmsAt(s, 12)
    THEN [ok |-> TRUE, date_part |-> Take(s, 10), time_part |-> SubSeq(s, 12, 19),
          timezone |-> IF IsOffsetAt(s, 20) THEN SubSeq(s, 20, 24) ELSE <<>>]
    ELSE IF IsYmdAt(s, 1)
    THEN [ok |-> TRUE, date_part |-> Take(s, 10), time_part |-> <<>>, timezone |-> <<>>]
    ELSE [ok |-> FALSE, date_part |-> <<>>, time_part |-> <<>>, timezone |-> <<>>]

DefaultTime == <<"2", "0", ":", "0", "0", ":", "0", "0">>

DefaultZone == <<"+", "0", "8", "0", "0">>

\* convert_date_format without the completion of HH:MM by :00
convert_date_format_short_time(date_str) ==
    IF Falsy(date_str) THEN VNull
    ELSE LET m == DateMatch(StrOf(date_str))
             time_part == IF m.time_part # <<>> THEN m.time_part ELSE DefaultTime
             timezone == IF m.timezone # <<>> THEN m.timezone ELSE DefaultZone
         IN IF m.ok THEN VStr(m.date_part \o <<"T">> \o time_part \o timezone)
            ELSE VStr(StrOf(date_str))

convert_date_format(date_str) ==
    IF Falsy(date_str) THEN VNull
    ELSE LET m == DateMatch(StrOf(date_str))
             t0 == IF m.time_part # <<>> THEN m.time_part ELSE DefaultTime
             time_part == IF Len(t0) = 5 THEN t0 \o <<":", "0", "0">> ELSE t0
             timezone == IF m.timezone # <<>> THEN m.timezone ELSE DefaultZone
         IN IF m.ok THEN VStr(m.date_part \o <<"T">> \o time_part \o timezone)
            ELSE VStr(StrOf(date_str))

\* datetime objects are compared field by field: <<day, second>> with
\* day = (year, month, day) and second = (hour, minute, second) packed
DateMin == <<1 * 512 + 1 * 32 + 1, 0>>

IsLeap(y) == (y % 4 = 0 /\ y % 100 # 0) \/ y % 400 = 0

DaysIn(y, m) ==
    IF m = 2 THEN (IF IsLeap(y) THEN 29 ELSE 28)
    ELSE IF m \in {4, 6, 9, 11} THEN 30 ELSE 31

\* datetime.strptime of the matched text: ok is FALSE for ValueError
Strptime(ymd, hms) ==
    LET y == ToInt(SubSeq(ymd, 1, 4))
        m == ToInt(SubSeq(ymd, 6, 7))
        d == ToInt(SubSeq(ymd, 9, 10))
        hh == IF hms = <<>> THEN 0 ELSE ToInt(SubSeq(hms, 1, 2))
        mi == IF hms = <<>> THEN 0 ELSE ToInt(SubSeq(hms, 4, 5))
        ss == IF Len(hms) = 8 THEN ToInt(SubSeq(hms, 7, 8)) ELSE 0
    IN IF y >= 1 /\ m \in 1..12 /\ d >= 1 /\ d <= DaysIn(y, m) /\ hh <= 23 /\ mi <= 59 /\ ss <= 59
       THEN [ok |-> TRUE, at |-> <<y * 512 + m * 32 + d, (hh * 60 + mi) * 60 + ss>>]
       ELSE [ok |-> FALSE, at |-> DateMin]

\* re.search: the leftmost position where each pattern matches, 0 if none
FirstPos(P) == IF P = {} THEN 0 ELSE CHOOSE i \in P : \A j \in P : i <= j

SearchYmdTHms(s) ==
    FirstPos({i \in 1..Len(s) : IsYmdAt(s, i) /\ i + 10 <= Len(s) /\ s[i + 10] = "T" /\ IsHmsAt(s, i + 11)})

SearchYmdHm(s) ==
    FirstPos({i \in 1..Len(s) : IsYmdAt(s, i) /\ SpacesFrom(s, i + 10) >= 1
                                 /\ IsHmAt(s, i + 10 + SpacesFrom(s, i + 10))})

SearchYmd(s) == FirstPos({i \in 1..Len(s) : IsYmdAt(s, i)})

parse_date_for_sorting(date_str) ==
    IF Falsy(date_str) THEN DateMin
    ELSE LET s == StrOf(date_str)
             p1 == SearchYmdTHms(s)
             p2 == SearchYmdHm(s)
             p3 == SearchYmd(s)
             r1 == Strptime(SubSeq(s, p1, p1 + 9), SubSeq(s, p1 + 11, p1 + 18))
             h2 == p2 + 10 + SpacesFrom(s, p2 + 10)
             r2 == Strptime(SubSeq(s, p2, p2 + 9), SubSeq(s, h2, h2 + 4))
             r3 == Strptime(SubSeq(s, p3, p3 + 9), <<>>)
         IN IF p1 > 0 /\ r1.ok THEN r1.at
            ELSE IF p2 > 0 /\ r2.ok THEN r2.at
            ELSE IF p3 > 0 /\ r3.ok THEN r3.at
            ELSE DateMin

DOT_MD == <<".", "m", "d">>

\* str.replace(old, ''): every occurrence of old removed, left to right
RECURSIVE RemoveAll(_, _)
RemoveAll(s, old) ==
    IF s = <<>> THEN <<>>
    ELSE IF StartsWith(s, old) THEN RemoveAll(Drop(s, Len(old)), old)
    ELSE <<s[1]>> \o RemoveAll(Drop(s, 1), old)

\* re.match(r'^\d{4}-\d{2}-\d{2}-(.+)\.md$', filename)
extract_slug_from_filename(filename) ==
    IF IsYmdAt(filename, 1) /\ Len(filename) >= 15 /\ filename[11] = "-" /\ EndsWith(filename, DOT_MD)
    THEN SubSeq(filename, 12, Len(filename) - 3)
    ELSE RemoveAll(filename, DOT_MD)

K_layout == <<"layout">>

K_title == <<"title">>

K_date == <<"date">>

K_author == <<"author">>

K_comments == <<"comments">>

K_tags == <<"tags">>

K_categories == <<"categories">>

K_slug == <<"slug">>

K_type == <<"type">>

K_weight == <<"weight">>

field_order == <<K_layout, K_title, K_date, K_author, K_comments, K_tags, K_categories, K_slug,
                 K_type, K_weight>>

\* OrderedEntries with the other fields before the known ones
OrderedEntries_others_first(e) ==
    LET known == SelectSeq(field_order, LAMBDA k : HasKey(e, k))
        first == [i \in 1..Len(known) |-> [k |-> known[i], v |-> GetKey(e, known[i])]]
        rest == SelectSeq(e, LAMBDA x : \A i \in 1..Len(field_order) : field_order[i] # x.k)
    IN rest \o first

\* the entries of frontmatter in the canonical order, the others after them
\* in their original order
OrderedEntries(e) ==
    LET known == SelectSeq(field_order, LAMBDA k : HasKey(e, k))
        first == [i \in 1..Len(known) |-> [k |-> known[i], v |-> GetKey(e, known[i])]]
        rest == SelectSeq(e, LAMBDA x : \A i \in 1..Len(field_order) : field_order[i] # x.k)
    IN first \o rest

\* whether yaml.dump writes the string plain: it must read back as the same
\* string; otherwise it is written in single quotes
PlainOK(s) ==
    /\ s # <<>>
    /\ ~IsSpace(s[1]) /\ ~IsSpace(s[Len(s)])
    /\ ColonPos(s) = 0
    /\ s[1] \notin {"#", ",", "[", "]", "{", "}", "&", "*", "!", "|", ">", "'", "dq", "%", "@", "?", ":"}
    /\ ~IsItem(s)
    /\ ~Contains(s, <<" ", "#">>)
    /\ ResolveScalar(s).t = "str"

DumpScalar(v) ==
    IF v.t = "str" THEN (IF PlainOK(v.s) THEN v.s ELSE <<"'">> \o v.s \o <<"'">>)
    ELSE IF v.t = "int" THEN IntToStr(v.n)
    ELSE IF v.t = "null" THEN <<"null">>
    ELSE v.s

\* the lines yaml.dump writes for one key (block style, no sorting)
DumpEntry(x) ==
    IF x.v.t = "list" /\ x.v.l # <<>>
    THEN << x.k \o <<":">> >> \o [i \in 1..Len(x.v.l) |-> <<"-", " ">> \o DumpScalar(x.v.l[i])]
    ELSE IF x.v.t = "list" THEN << x.k \o <<":", " ", "[", "]">> >>
    ELSE << x.k \o <<":", " ">> \o DumpScalar(x.v) >>

RECURSIVE DumpEntries(_)
DumpEntries(e) == IF e = <<>> THEN <<>> ELSE DumpEntry(e[1]) \o DumpEntries(Drop(e, 1))

\* the lines of the YAML text of the frontmatter, trailing newline stripped
format_frontmatter(frontmatter) ==
    IF frontmatter = <<>> THEN << <<"{", "}">> >> ELSE DumpEntries(OrderedEntries(frontmatter))

\* f"---\n{formatted_frontmatter}\n---\n{body}"
Rebuild(fmLines, body) == <<DELIM>> \o fmLines \o <<DELIM>> \o body

\* ------------------------------------------------------------------------
\* formater.py: weights
\* ------------------------------------------------------------------------

\* the characters of file names, in code point order
OrdTable == <<"-", ".", "0", "1", "2", "3", "4", "5", "6", "7", "8", "9", "_",
              "a", "b", "c", "d", "e", "g", "i", "m", "n", "p", "s", "x">>

Ord(c) == CHOOSE i \in 1..Len(OrdTable) : OrdTable[i] = c

\* Python's str <
RECURSIVE StrLess(_, _)
StrLess(a, b) ==
    IF b = <<>> THEN FALSE
    ELSE IF a = <<>> THEN TRUE
    ELSE IF a[1] = b[1] THEN StrLess(Drop(a, 1), Drop(b, 1))
    ELSE Ord(a[1]) < Ord(b[1])

\* datetime <
DateLess(a, b) == a[1] < b[1] \/ (a[1] = b[1] /\ a[2] < b[2])

\* the sort key (x[3], x[0]): parsed date, then file name
KeyLess(x, y) ==
    DateLess(x.date_obj, y.date_obj) \/ (x.date_obj = y.date_obj /\ StrLess(x.filename, y.filename))

\* sorted(): stable, so an element goes after those not greater than it
RECURSIVE InsertSorted(_, _)
InsertSorted(x, sorted) ==
    IF sorted = <<>> THEN <<x>>
    ELSE IF KeyLess(x, sorted[1]) THEN <<x>> \o sorted
    ELSE <<sorted[1]>> \o InsertSorted(x, Drop(sorted, 1))

RECURSIVE Sorted(_)
Sorted(xs) ==
    IF xs = <<>> THEN <<>> ELSE InsertSorted(xs[Len(xs)], Sorted(Take(xs, Len(xs) - 1)))

\* ------------------------------------------------------------------------
\* State
\* ------------------------------------------------------------------------

VARIABLES
    call,        \* a pure function under test and its argument
    ret,         \* what it returned
    fpc,         \* "call" before the function ran, "return" after
    script,      \* the script that runs: "formater", "fixer", "modify"
    fs,          \* the content root: file -> its text (<<>>: no such file)
    pc,          \* where the running batch is
    run,         \* batches completed
    todo,        \* directories (or files) the batch still has to visit
    queue,       \* files of the current directory not read yet
    files_info,  \* formater: the parsed files of the current directory
    idx,         \* formater: position in sorted_files
    total,       \* the counters of the summary
    source,      \* organizer: the source directory, file -> text
    target,      \* organizer: the destination root, path -> text
    cache_file,  \* organizer: the side file .gesp_file_cache.json
    use_cache,   \* organizer.use_cache
    cache,       \* organizer.cache["existed_files"]: filename -> path
    opc,         \* where the organizer is
    oruns,       \* organizer runs completed
    md_files,    \* source files not analysed yet
    copy_plan,   \* target_subdir -> source files, in insertion order
    existed_files_map,  \* the files reported as already existing
    copied_files,       \* paths copied in this run
    formatted    \* the paths the last run_formatter call was given

fnVars == <<call, ret, fpc>>

batchVars == <<script, fs, pc, run, todo, queue, files_info, idx, total>>

orgVars == <<source, target, cache_file, use_cache, cache, opc, oruns, md_files, copy_plan,
             existed_files_map, copied_files, formatted>>

vars == <<call, ret, fpc, script, fs, pc, run, todo, queue, files_info, idx, total,
          source, target, cache_file, use_cache, cache, opc, oruns, md_files, copy_plan,
          existed_files_map, copied_files, formatted>>

NoRet == [t |-> "pending"]

\* the variables of the pure functions, when a batch runs
FnIdle == call = [fn |-> "none"] /\ ret = NoRet /\ fpc = "idle"

\* the variables of the organizer, when another script runs
OrgIdle ==
    /\ source = <<>> /\ target = <<>> /\ cache_file = [exists |-> FALSE, existed_files |-> <<>>]
    /\ use_cache = FALSE /\ cache = <<>> /\ opc = "off" /\ oruns = 0
    /\ md_files = <<>> /\ copy_plan = <<>> /\ existed_files_map = <<>>
    /\ copied_files = <<>> /\ formatted = <<>>

\* ------------------------------------------------------------------------
\* The content root
\* ------------------------------------------------------------------------

\* batches run one after the other on the same root
MaxRuns == 2

Files == 1..5

ROOT == <<".">>

SUB == <<"s", "u", "b">>

FileDir(f) == IF f = 5 THEN SUB ELSE ROOT

Name_b == <<"2", "0", "2", "4", "-", "1", "1", "-", "0", "3", "-", "b", ".", "m", "d">>

Name_a == <<"a", ".", "m", "d">>

Name_dated_a == <<"2", "0", "2", "4", "-", "1", "1", "-", "0", "3", "-", "a", ".", "m", "d">>

Name_index == <<"_", "i", "n", "d", "e", "x", ".", "m", "d">>

Name_c == <<"2", "0", "2", "4", "-", "0", "1", "-", "0", "1", "-", "c", ".", "m", "d">>

FileName(f) == <<Name_b, Name_a, Name_dated_a, Name_index, Name_c>>[f]

Exists(f) == fs[f] # <<>>

\* os.walk visits the root, then its subdirectory
WalkDirs == <<ROOT, SUB>>

\* a directory listing, in file order
RECURSIVE Listing(_)
Listing(S) ==
    IF S = {} THEN <<>>
    ELSE LET m == CHOOSE x \in S : \A y \in S : x <= y IN <<m>> \o Listing(S \ {m})

\* collect_files_by_directory: the .md files of dir whose name does not
\* start with an underscore
Collectable(f, dir) ==
    Exists(f) /\ FileDir(f) = dir /\ EndsWith(FileName(f), DOT_MD) /\ FileName(f)[1] # "_"

\* Path(dir).glob("*.md")
GlobMd(dir) == {f \in Files : Exists(f) /\ FileDir(f) = dir /\ EndsWith(FileName(f), DOT_MD)}

\* the weight get_max_weight_in_directory reads in a text: its integer
\* weight, 0 when it has none
WeightIn(content) ==
    LET fm == parse_frontmatter(content).fm
    IN IF fm.t = "map" /\ HasKey(fm.e, K_weight) /\ GetKey(fm.e, K_weight).t = "int"
       THEN GetKey(fm.e, K_weight).n ELSE 0

FileWeight(f) == WeightIn(fs[f])

RECURSIVE MaxOf(_)
MaxOf(S) == IF S = {} THEN 0 ELSE LET x == CHOOSE x \in S : TRUE
                                  IN LET m == MaxOf(S \ {x}) IN IF x > m THEN x ELSE m

\* get_max_weight_in_directory over the collected files only, the files whose
\* name starts with an underscore left out
get_max_weight_of_collected(dir) == MaxOf({FileWeight(f) : f \in {g \in Files : Collectable(g, dir)}})

get_max_weight_in_directory(dir) == MaxOf({FileWeight(f) : f \in GlobMd(dir)})

\* assign_weights_by_date without its sort: weights in listing order
assign_weights_unsorted(info, dir) ==
    [i \in 1..Len(info) |->
        [info[i] EXCEPT !.frontmatter =
            SetKey(@, K_weight, VInt(get_max_weight_in_directory(dir) + i))]]

\* file_info[2]['weight'] = max_existing_weight + i, in sorted order
assign_weights_by_date(info, dir) ==
    LET max_existing_weight == get_max_weight_in_directory(dir)
        sorted_files == Sorted(info)
    IN [i \in 1..Len(sorted_files) |->
           [sorted_files[i] EXCEPT !.frontmatter = SetKey(@, K_weight, VInt(max_existing_weight + i))]]

\* ------------------------------------------------------------------------
\* The documents the root is filled with
\* ------------------------------------------------------------------------

HeaderLine(k, text) == k \o <<":", " ">> \o text

Doc(header, body) == <<DELIM>> \o header \o <<DELIM>> \o body

T_plain == <<"shi", "li">>

T_prefixed == GESP \o <<"er", "ji", "lian", "xi", "fw,", "shi", "li">>

T_double == GESP \o <<"er", "ji">> \o GESP \o <<"san", "ji", "shi", "li">>

D_canon == <<"2", "0", "2", "4", "-", "1", "1", "-", "0", "3", "T", "1", "0", ":", "0", "0", ":",
             "0", "0", "+", "0", "8", "0", "0">>

D_hm == <<"2", "0", "2", "4", "-", "1", "1", "-", "0", "3", " ", "1", "0", ":", "0", "0">>

D_dateonly == <<"2", "0", "2", "4", "-", "0", "1", "-", "0", "5">>

D_words == <<"s", "o", "o", "n">>

Docs == <<"d", "o", "c", "s">>

H2_h == <<"#", "#", " ", "h">>

Body_h2 == <<H2_h, <<>>>>

Body_include == <<INCLUDE \o <<"x", " ", "%", "}">>, H2_h, <<>>>>

SlugText(f) == << <<"b">>, <<"a">>, <<"a">>, <<"_", "i", "n", "d", "e", "x">>, <<"c">> >>[f]

\* already normalised, weight w
DocNormal(f, title, w) ==
    Doc(<<HeaderLine(K_title, title), HeaderLine(K_date, D_canon), HeaderLine(K_slug, SlugText(f)),
          HeaderLine(K_type, Docs), HeaderLine(K_weight, IntToStr(w))>>, Body_h2)

\* as the posts arrive: exam prefix in the title, short date, an include line
DocRaw == Doc(<<HeaderLine(K_title, T_prefixed), HeaderLine(K_date, D_hm)>>, Body_include)

DocDateOnly == Doc(<<HeaderLine(K_date, D_dateonly), HeaderLine(K_title, T_plain)>>, Body_h2)

\* nothing to update but the weight it lacks; date as given
DocUnweighted(f, date) ==
    Doc((IF date = <<>> THEN <<>> ELSE <<HeaderLine(K_date, date)>>)
        \o <<HeaderLine(K_title, T_plain), HeaderLine(K_slug, SlugText(f)), HeaderLine(K_type, Docs)>>,
        Body_h2)

\* already normalised, an include line in its body
DocIncluding(f, w) ==
    Doc(<<HeaderLine(K_title, T_plain), HeaderLine(K_date, D_canon), HeaderLine(K_slug, SlugText(f)),
          HeaderLine(K_type, Docs), HeaderLine(K_weight, IntToStr(w))>>, Body_include)

DocIntTitle == Doc(<<HeaderLine(K_title, <<"2", "0", "2", "4">>)>>, Body_h2)

DocNoMarker == <<T_plain, H2_h, <<>>>>

DocBadYaml == Doc(<<HeaderLine(K_title, <<"a", ":", " ", "b">>)>>, Body_h2)

DocListHeader == Doc(<<<<"-", " ", "a">>>>, Body_h2)

AllDocs(f) ==
    {DocNormal(f, T_plain, 5), DocNormal(f, T_double, 2), DocRaw, DocDateOnly,
     DocUnweighted(f, <<>>), DocUnweighted(f, D_words), DocIntTitle, DocNoMarker, DocBadYaml,
     DocListHeader}

\* what each file of the root can be at the start (<<>>: absent)
Contents(f) ==
    IF f \in {1, 2} THEN AllDocs(f) \cup {<<>>}
    ELSE IF f = 3 THEN {<<>>, DocDateOnly, DocNormal(f, T_plain, 5), DocIncluding(f, 5)}
    ELSE IF f = 4 THEN {<<>>, DocNormal(f, T_plain, 9)}
    ELSE {<<>>, DocRaw}

InitRoot(s) ==
    /\ script = s
    /\ \E c1 \in Contents(1), c2 \in Contents(2), c3 \in Contents(3), c4 \in Contents(4),
          c5 \in Contents(5) : fs = <<c1, c2, c3, c4, c5>>
    /\ pc = "idle" /\ run = 0
    /\ todo = <<>> /\ queue = <<>> /\ files_info = <<>> /\ idx = 0
    /\ total = [processed |-> 0, updated |-> 0]
    /\ FnIdle
    /\ OrgIdle

\* ------------------------------------------------------------------------
\* formater.py: process_markdown_files
\* ------------------------------------------------------------------------

\* Rules 1-4 of the loop over sorted_files work on r = [frontmatter, updated,
\* raised]: the entries, whether anything was updated so far, and whether
\* clean_title raised.

\* 1. date
RuleDateWith(r, new_date) ==
    IF ~Falsy(new_date) /\ new_date # GetKey(r.frontmatter, K_date)
    THEN [r EXCEPT !.frontmatter = SetKey(@, K_date, new_date), !.updated = TRUE]
    ELSE r

RuleDate(r) ==
    IF HasKey(r.frontmatter, K_date)
    THEN RuleDateWith(r, convert_date_format(GetKey(r.frontmatter, K_date)))
    ELSE r

\* 2. title
RuleTitleWith(r, cleaned_title) ==
    IF cleaned_title.t = "raise" THEN [r EXCEPT !.raised = TRUE]
    ELSE IF cleaned_title # GetKey(r.frontmatter, K_title)
    THEN [r EXCEPT !.frontmatter = SetKey(@, K_title, cleaned_title), !.updated = TRUE]
    ELSE r

RuleTitle(r) ==
    IF HasKey(r.frontmatter, K_title)
    THEN RuleTitleWith(r, clean_title(GetKey(r.frontmatter, K_title)))
    ELSE r

\* 3. slug and 4. type: set when missing or different
RuleSet(r, k, v) ==
    IF ~HasKey(r.frontmatter, k) \/ GetKey(r.frontmatter, k) # v
    THEN [r EXCEPT !.frontmatter = SetKey(@, k, v), !.updated = TRUE]
    ELSE r

Normalize(e, filename) ==
    RuleSet(RuleSet(RuleTitle(RuleDate([frontmatter |-> e, updated |-> FALSE, raised |-> FALSE])),
                    K_slug, VStr(extract_slug_from_filename(filename))),
            K_type, VStr(Docs))

\* if not os.path.exists(root_path) is never true: the root exists
FmtStart ==
    /\ script = "formater" /\ pc = "idle" /\ run < MaxRuns
    /\ todo' = SelectSeq(WalkDirs, LAMBDA d : \E f \in Files : Collectable(f, d))
    /\ total' = [processed |-> 0, updated |-> 0]
    /\ pc' = "dir"
    /\ UNCHANGED <<script, fs, run, queue, files_info, idx, fnVars, orgVars>>

\* for rel_dir, files in files_by_dir.items()
FmtEnterDir ==
    /\ script = "formater" /\ pc = "dir" /\ todo # <<>>
    /\ queue' = Listing({f \in Files : Collectable(f, todo[1])})
    /\ files_info' = <<>>
    /\ pc' = "collect"
    /\ UNCHANGED <<script, fs, run, todo, idx, total, fnVars, orgVars>>

\* the entry of files_info for file f parsed as p
FileInfo(f, p) ==
    [f |-> f, filename |-> FileName(f), frontmatter |-> p.fm.e,
     date_obj |-> parse_date_for_sorting(
         IF HasKey(p.fm.e, K_date) THEN GetKey(p.fm.e, K_date) ELSE VStr(<<>>)),
     body |-> remove_include_lines(p.body)]

Collected(info, f, p) == IF p.fm.t # "map" THEN info ELSE Append(info, FileInfo(f, p))

\* the first loop over the files of the directory: read and parse one.
\* frontmatter.get on a header that is no mapping raises AttributeError,
\* which the except clause turns into a skip like the None case.
FmtCollect ==
    /\ script = "formater" /\ pc = "collect" /\ queue # <<>>
    /\ files_info' = Collected(files_info, queue[1], parse_frontmatter(fs[queue[1]]))
    /\ queue' = Tail(queue)
    /\ UNCHANGED <<script, fs, pc, run, todo, idx, total, fnVars, orgVars>>

\* if not files_info: continue; else sorted_files = assign_weights_by_date(...)
FmtAssign ==
    /\ script = "formater" /\ pc = "collect" /\ queue = <<>>
    /\ IF files_info = <<>>
       THEN pc' = "dir" /\ todo' = Tail(todo) /\ UNCHANGED <<files_info, idx>>
       ELSE /\ files_info' = assign_weights_by_date(files_info, todo[1])
            /\ idx' = 1
            /\ pc' = "process"
            /\ UNCHANGED todo
    /\ UNCHANGED <<script, fs, run, queue, total, fnVars, orgVars>>

\* one file x of sorted_files, r being what the rules made of it
FmtProcessWith(x, r) ==
    IF r.raised
    THEN /\ pc' = "crashed"
         /\ total' = [total EXCEPT !.processed = @ + 1]
         /\ UNCHANGED <<fs, files_info, idx>>
    ELSE /\ files_info' = [files_info EXCEPT ![idx].frontmatter = r.frontmatter]
         /\ IF r.updated \/ ~HasKey(r.frontmatter, K_weight)
            THEN /\ fs' = [fs EXCEPT ![x.f] = Rebuild(format_frontmatter(r.frontmatter), x.body)]
                 /\ total' = [processed |-> total.processed + 1, updated |-> total.updated + 1]
            ELSE /\ UNCHANGED fs
                 /\ total' = [total EXCEPT !.processed = @ + 1]
         /\ idx' = idx + 1
         /\ UNCHANGED pc

\* the second loop: one file of sorted_files.  It runs outside any try
\* block, so an exception raised by clean_title ends the script.
FmtProcess ==
    /\ script = "formater" /\ pc = "process" /\ idx <= Len(files_info)
    /\ FmtProcessWith(files_info[idx], Normalize(files_info[idx].frontmatter, files_info[idx].filename))
    /\ UNCHANGED <<script, run, todo, queue, fnVars, orgVars>>

FmtDirDone ==
    /\ script = "formater" /\ pc = "process" /\ idx > Len(files_info)
    /\ todo' = Tail(todo)
    /\ pc' = "dir"
    /\ UNCHANGED <<script, fs, run, queue, files_info, idx, total, fnVars, orgVars>>

\* the summary line after the last directory
FmtFinish ==
    /\ script = "formater" /\ pc = "dir" /\ todo = <<>>
    /\ run' = run + 1
    /\ pc' = "idle"
    /\ UNCHANGED <<script, fs, todo, queue, files_info, idx, total, fnVars, orgVars>>

InitFmt == InitRoot("formater")

NextFmt == FmtStart \/ FmtEnterDir \/ FmtCollect \/ FmtAssign \/ FmtProcess \/ FmtDirDone \/ FmtFinish

SpecFmt == InitFmt /\ [][NextFmt]_vars

\* ------------------------------------------------------------------------
\* Claims about process_markdown_files
\* ------------------------------------------------------------------------

ValidHeader(f) == parse_frontmatter(fs[f]).fm.t = "map"

WeightedText(c) ==
    /\ c # <<>>
    /\ parse_frontmatter(c).fm.t = "map"
    /\ HasKey(parse_frontmatter(c).fm.e, K_weight)

WeightOfText(c) == GetKey(parse_frontmatter(c).fm.e, K_weight)

HasDiskWeight(f) == WeightedText(fs[f])

MemWeight(x) == GetKey(x.frontmatter, K_weight).n

\* C1: with valid headers everywhere, a second run of process_markdown_files
\* right after a first one changes no file.
C1_SecondRunChangesNothing ==
    [][(run >= 1 /\ \A f \in Files : Exists(f) => ValidHeader(f)) => fs' = fs]_vars

\* C2: right after weight assignment in a directory whose maximum weight is
\* W, the K documents that had no weight carry exactly W+1 .. W+K.
C2_UnweightedGetNextK ==
    (pc = "process" /\ idx = 1) =>
        LET W == get_max_weight_in_directory(todo[1])
            U == {i \in 1..Len(files_info) : ~HasDiskWeight(files_info[i].f)}
        IN {MemWeight(files_info[i]) : i \in U} = (W + 1)..(W + Cardinality(U))

\* C3: a document that has a weight keeps that weight, whatever the batch
\* writes.
C3_ExistingWeightKept ==
    [][\A f \in Files :
          WeightedText(fs[f]) =>
              WeightedText(fs'[f]) /\ WeightOfText(fs'[f]) = WeightOfText(fs[f])]_vars

NoUsableDate(x) ==
    ~HasKey(x.frontmatter, K_date) \/ SearchYmd(StrOf(GetKey(x.frontmatter, K_date))) = 0

\* C4: within one directory pass the weights ascend with the parsed date,
\* ties broken by ascending file name, and a document whose date is missing
\* or unparseable sorts as the earliest possible date.
C4_WeightsFollowDateThenName ==
    pc = "process" =>
        \A i, j \in 1..Len(files_info) :
            /\ KeyLess(files_info[i], files_info[j]) => MemWeight(files_info[i]) < MemWeight(files_info[j])
            /\ NoUsableDate(files_info[i]) => files_info[i].date_obj = DateMin
            /\ (NoUsableDate(files_info[i]) /\ ~NoUsableDate(files_info[j]))
                   => MemWeight(files_info[i]) < MemWeight(files_info[j])

\* an undated document with the greatest name, and two documents of the
\* same date
C4_Witness ==
    /\ pc = "process"
    /\ \E i, j, k \in 1..Len(files_info) :
          /\ NoUsableDate(files_info[i]) /\ ~NoUsableDate(files_info[j])
          /\ StrLess(files_info[j].filename, files_info[i].filename)
          /\ j # k /\ files_info[j].date_obj = files_info[k].date_obj

\* no line of the body of the text c contains '{% include '
NoIncludeLine(c) ==
    LET body == parse_frontmatter(c).body
    IN \A i \in 1..Len(body) : ~Contains(body[i], INCLUDE)

\* C23: once process_markdown_files has handled a parseable document, the
\* file on disk has no body line containing '{% include ', also when no
\* frontmatter field needed updating.
C23_NoIncludeLineLeft ==
    pc = "process" => \A i \in 1..(idx - 1) : NoIncludeLine(fs[files_info[i].f])

\* the integer weights the .md files of the directory dir carry on disk
WeightsOnDisk(dir) ==
    {WeightOfText(fs[f]).n :
        f \in {g \in Files : /\ Exists(g) /\ FileDir(g) = dir /\ EndsWith(FileName(g), <<".", "m", "d">>)
                              /\ WeightedText(fs[g]) /\ WeightOfText(fs[g]).t = "int"}}

\* C27: the weights process_markdown_files assigns in one directory are
\* pairwise distinct, and each is greater than every integer weight an .md
\* file of the directory carried before (the files of the directory are
\* untouched until its first file is processed).
C27_NewWeightsAboveOldOnes ==
    (pc = "process" /\ idx = 1) =>
        /\ \A i, j \in 1..Len(files_info) : i # j => MemWeight(files_info[i]) # MemWeight(files_info[j])
        /\ \A i \in 1..Len(files_info) : \A w \in WeightsOnDisk(todo[1]) : MemWeight(files_info[i]) > w

\* two documents get weights in the root, where the greatest weight, 9, is
\* that of _index.md, which is not one of the documents processed
C27_Witness ==
    /\ pc = "process" /\ idx = 1 /\ todo[1] = ROOT /\ Len(files_info) >= 2
    /\ Exists(4) /\ 9 \in WeightsOnDisk(ROOT)
    /\ \E i \in 1..Len(files_info) : HasDiskWeight(files_info[i].f)

\* C7: no file makes the batch stop before its summary.
C7_BatchNeverAborts == pc # "crashed"

\* ------------------------------------------------------------------------
\* The functions on their own: inputs drawn from bounded sets
\* ------------------------------------------------------------------------

\* longest text, in lines, handed to parse_frontmatter
MaxLines == 5

Line_title == <<"title", ":", " ", "x">>

Line_item == <<"-", " ", "a">>

Line_plain == <<"x">>

Line_twocolons == <<"title", ":", " ", "a", ":", " ", "b">>

LineAlphabet == {DELIM, <<>>, Line_title, Line_item, Line_plain, Line_twocolons}

RECURSIVE Texts(_)
Texts(n) ==
    IF n = 0 THEN {<<>>}
    ELSE LET T == Texts(n - 1)
         IN T \cup {Append(t, l) : t \in {u \in T : Len(u) = n - 1}, l \in LineAlphabet}

ParseInputs == Texts(MaxLines) \ {<<>>}

Example_C10 == GESP \o <<"er", "ji", "lian", "xi", "fw,", "shi", "li">>

TitleInputs ==
    {VStr(p1 \o p2 \o p3 \o p4 \o p5 \o p6 \o p7 \o p8 \o p9) :
        p1 \in {<<>>, GESP}, p2 \in {<<>>, CPP}, p3 \in {<<>>, <<" ">>},
        p4 \in {<<>>, <<"er">>, <<"3">>}, p5 \in {<<>>, <<"ji">>},
        p6 \in {<<>>, <<"lian", "xi">>}, p7 \in {<<>>, <<"fw,">>, <<",">>},
        p8 \in {<<>>, <<" ">>},
        p9 \in {<<>>, <<"shi", "li">>, GESP \o <<"san", "ji", "shi", "li">>}}
    \cup {VNull, VInt(0), VInt(7)}

BatchIdle ==
    /\ script = "none" /\ fs = [f \in Files |-> <<>>] /\ pc = "off" /\ run = 0
    /\ todo = <<>> /\ queue = <<>> /\ files_info = <<>> /\ idx = 0
    /\ total = [processed |-> 0, updated |-> 0]

InitFn ==
    /\ \/ \E c \in ParseInputs : call = [fn |-> "parse_frontmatter", arg |-> c]
       \/ \E t \in TitleInputs : call = [fn |-> "clean_title", arg |-> t]
    /\ ret = NoRet
    /\ fpc = "call"
    /\ BatchIdle
    /\ OrgIdle

Apply_parse_frontmatter ==
    /\ fpc = "call" /\ call.fn = "parse_frontmatter"
    /\ ret' = parse_frontmatter(call.arg)
    /\ fpc' = "return"
    /\ UNCHANGED <<call, batchVars, orgVars>>

Apply_clean_title ==
    /\ fpc = "call" /\ call.fn = "clean_title"
    /\ ret' = clean_title(call.arg)
    /\ fpc' = "return"
    /\ UNCHANGED <<call, batchVars, orgVars>>

NextFn == Apply_parse_frontmatter \/ Apply_clean_title

SpecFn == InitFn /\ [][NextFn]_vars

Returned(fn) == fpc = "return" /\ call.fn = fn

\* C8: parse_frontmatter returns (mapping, body) when the text has the
\* delimiter pair and the header between them parses as a mapping, and in
\* every other case (none, the complete unmodified input).
C8_MappingOrNoneWithOriginal ==
    Returned("parse_frontmatter") =>
        LET c == call.arg
            j == ClosingLine(c)
        IN IF j > 0 /\ yaml_safe_load(SubSeq(c, 2, j - 1)).t = "map"
           THEN ret.fm.t = "map" /\ ret.body = SubSeq(c, j + 1, Len(c))
           ELSE ret.fm.t = "none" /\ ret.body = c

\* C10: clean_title of the title LB GESP RB er ji lian xi fw, shi li
\* (the spec's example) is exactly shi li.
C10_ExampleCleansToShiLi ==
    (Returned("clean_title") /\ call.arg = VStr(Example_C10)) => ret = VStr(<<"shi", "li">>)

\* neither pattern of clean_title matches at the start of s
NoExamPrefix(s) == PrefixMatchLen(GESP \o CPP, s) < 0 /\ PrefixMatchLen(GESP, s) < 0

\* C11: for every title (a string) that does not start with the bracketed
\* exam prefix, clean_title returns the title unchanged, character for
\* character, leading and trailing whitespace included.
C11_NoPrefixUnchanged ==
    (Returned("clean_title") /\ call.arg.t = "str" /\ NoExamPrefix(call.arg.s)) => ret = call.arg

\* C12: clean_title is idempotent: cleaning its own result changes nothing,
\* also when a second exam prefix follows the first one.
C12_CleanTitleIdempotent ==
    (Returned("clean_title") /\ ret.t # "raise") => clean_title(ret) = ret

\* what the two substitutions leave of the title s, stripped
StrippedRest(s) == Strip(SubPrefix(GESP, SubPrefix(GESP \o CPP, s)))

\* C13: when stripping the exam prefix leaves an empty or whitespace-only
\* string clean_title returns the original title, and it never returns an
\* empty string for a non-empty title.
C13_NeverEmpties ==
    (Returned("clean_title") /\ call.arg.t = "str" /\ call.arg.s # <<>>) =>
        /\ ret.t = "str" /\ ret.s # <<>>
        /\ StrippedRest(call.arg.s) = <<>> => ret = call.arg

\* a title that is nothing but the exam prefix has been cleaned
C13_Witness ==
    /\ Returned("clean_title") /\ call.arg.t = "str"
    /\ StartsWith(call.arg.s, GESP) /\ PrefixMatchLen(GESP, call.arg.s) = Len(call.arg.s)
    /\ ret = call.arg

\* ------------------------------------------------------------------------
\* fix_empty_titles.py: TitleFixer
\* ------------------------------------------------------------------------

\* str(value)
PyStr(v) == IF v.t = "null" THEN <<"None">> ELSE StrOf(v)

\* the lines TitleFixer.format_frontmatter writes for one field
FixerField(x) ==
    IF x.v.t = "list"
    THEN (IF x.v.l = <<>> THEN << x.k \o <<":", " ", "[", "]">> >>
          ELSE << x.k \o <<":">> >> \o [i \in 1..Len(x.v.l) |-> <<"-", " ">> \o PyStr(x.v.l[i])])
    ELSE IF x.v.t = "int" THEN << x.k \o <<":", " ">> \o IntToStr(x.v.n) >>
    ELSE IF x.v.t = "str" /\ (Contains(x.v.s, <<":">>) \/ StartsWith(x.v.s, <<"#">>))
    THEN << x.k \o <<":", " ", "dq">> \o x.v.s \o <<"dq">> >>
    ELSE << x.k \o <<":", " ">> \o PyStr(x.v) >>

RECURSIVE FixerFields(_)
FixerFields(e) == IF e = <<>> THEN <<>> ELSE FixerField(e[1]) \o FixerFields(Drop(e, 1))

\* the fields of field_order first, the others after them
TitleFixer_format_frontmatter(frontmatter) == FixerFields(OrderedEntries(frontmatter))

\* extract_first_h2_title that keeps the marker of the heading line
RECURSIVE TitleFixer_extract_first_h2_title_with_marker(_)
TitleFixer_extract_first_h2_title_with_marker(body) ==
    IF body = <<>> THEN <<>>
    ELSE IF StartsWith(Strip(body[1]), <<"#", "#", " ">>) /\ Strip(Drop(Strip(body[1]), 3)) # <<>>
    THEN Strip(body[1])
    ELSE TitleFixer_extract_first_h2_title_with_marker(Drop(body, 1))

\* the first line that, stripped, starts with "## " and has a non-empty
\* rest; <<>> is None
RECURSIVE TitleFixer_extract_first_h2_title(_)
TitleFixer_extract_first_h2_title(body) ==
    IF body = <<>> THEN <<>>
    ELSE IF StartsWith(Strip(body[1]), <<"#", "#", " ">>) /\ Strip(Drop(Strip(body[1]), 3)) # <<>>
    THEN Strip(Drop(Strip(body[1]), 3))
    ELSE TitleFixer_extract_first_h2_title(Drop(body, 1))

\* is_empty_title as Python truthiness
is_empty_title_falsy(title) == Falsy(title) \/ (title.t = "str" /\ Strip(title.s) = <<>>)

is_empty_title(title) == title.t = "null" \/ (title.t = "str" /\ Strip(title.s) = <<>>)

\* frontmatter.get('title')
TitleOf(e) == IF HasKey(e, K_title) THEN GetKey(e, K_title) ELSE VNull

\* process_file on a file of the given content: the content it leaves and
\* the counter it increments.  A header that loads as a list or a string is
\* truthy and has no get: the AttributeError is caught and counted.
FixedWith(content, p, h2_title) ==
    IF p.fm.t = "none" \/ (p.fm.t = "map" /\ p.fm.e = <<>>) THEN [content |-> content, stat |-> "skipped"]
    ELSE IF p.fm.t # "map" THEN [content |-> content, stat |-> "errors"]
    ELSE IF ~is_empty_title(TitleOf(p.fm.e)) THEN [content |-> content, stat |-> "titled"]
    ELSE IF h2_title = <<>> THEN [content |-> content, stat |-> "no_h2_files"]
    ELSE [content |-> Rebuild(TitleFixer_format_frontmatter(SetKey(p.fm.e, K_title, VStr(h2_title))),
                              p.body),
          stat |-> "fixed_files"]

ProcessFileWith(content, p) == FixedWith(content, p, TitleFixer_extract_first_h2_title(p.body))

TitleFixer_process_file(content) == ProcessFileWith(content, parse_frontmatter(content))

\* ------------------------------------------------------------------------
\* modify_md_titles.py
\* ------------------------------------------------------------------------

\* [frontmatter, body_content]; ok is FALSE for (None, content).  The header
\* is kept as its lines, never loaded as YAML.
extract_frontmatter_and_content(content) ==
    IF ClosingLine(content) = 0 THEN [ok |-> FALSE, frontmatter |-> <<>>, body_content |-> content]
    ELSE [ok |-> TRUE, frontmatter |-> SubSeq(content, 2, ClosingLine(content) - 1),
          body_content |-> SubSeq(content, ClosingLine(content) + 1, Len(content))]

\* ^title:\s*(.+)$ on the stripped line
IsTitleLine(line) ==
    StartsWith(Strip(line), K_title \o <<":">>) /\ LStrip(Drop(Strip(line), Len(K_title) + 1)) # <<>>

Unquote(title) ==
    IF title # <<>> /\ title[1] \in {"dq", "'"} /\ title[Len(title)] = title[1]
    THEN SubSeq(title, 2, Len(title) - 1) ELSE title

\* index of the first title line (from 1), 0 when there is none
TitleLineIndex(frontmatter) ==
    IF \E i \in 1..Len(frontmatter) : IsTitleLine(frontmatter[i])
    THEN CHOOSE i \in 1..Len(frontmatter) :
             IsTitleLine(frontmatter[i]) /\ \A j \in 1..(i - 1) : ~IsTitleLine(frontmatter[j])
    ELSE 0

extract_title_from_frontmatter(frontmatter) ==
    Unquote(LStrip(Drop(Strip(frontmatter[TitleLineIndex(frontmatter)]), Len(K_title) + 1)))

\* ^##\s+(.+)$ on the stripped line
IsH2Line(line) ==
    /\ StartsWith(Strip(line), <<"#", "#">>)
    /\ SpacesFrom(Strip(line), 3) >= 1
    /\ Len(Strip(line)) > 2 + SpacesFrom(Strip(line), 3)

H2LineIndex(content) ==
    IF \E i \in 1..Len(content) : IsH2Line(content[i])
    THEN CHOOSE i \in 1..Len(content) : IsH2Line(content[i]) /\ \A j \in 1..(i - 1) : ~IsH2Line(content[j])
    ELSE 0

\* the heading text of the first second-level heading; call only when
\* H2LineIndex(content) > 0
find_first_h2_title(content) == LStrip(Drop(Strip(content[H2LineIndex(content)]), 2))

\* the part of the original line before its first colon, ": ", new_title
update_frontmatter_title(frontmatter, new_title, i) ==
    IF i >= 1 /\ i <= Len(frontmatter) /\ Contains(frontmatter[i], <<":">>)
    THEN [frontmatter EXCEPT ![i] =
             Take(@, (CHOOSE k \in 1..Len(@) : @[k] = ":" /\ \A j \in 1..(k - 1) : @[j] # ":") - 1)
             \o <<":", " ">> \o new_title]
    ELSE frontmatter

\* the first heading line becomes ## with its whitespace, then new_title
update_first_h2_title(content, new_title) ==
    IF H2LineIndex(content) = 0 THEN content
    ELSE [content EXCEPT ![H2LineIndex(content)] =
             Take(Strip(@), 2 + SpacesFrom(Strip(@), 3)) \o new_title]

\* content.rstrip() + '\n'
RECURSIVE RStripText(_)
RStripText(content) ==
    IF content = <<>> THEN << <<>> >>
    ELSE IF Strip(content[Len(content)]) = <<>> /\ Len(content) > 1
    THEN RStripText(Take(content, Len(content) - 1))
    ELSE Append(Take(content, Len(content) - 1), RStrip(content[Len(content)]))

\* normalize_end_lines without the rstrip: one more newline at each call
normalize_end_lines_appending(content) == Append(content, <<>>)

normalize_end_lines(content) == Append(RStripText(content), <<>>)

\* NewTitle without the containment test
NewTitle_always_joined(current_title, first_h2) == first_h2 \o <<" ">> \o current_title

NewTitle(current_title, first_h2) ==
    IF Contains(first_h2, current_title) THEN first_h2 ELSE first_h2 \o <<" ">> \o current_title

Reconciled(x, new_title) ==
    normalize_end_lines(
        Rebuild(update_frontmatter_title(x.frontmatter, new_title, TitleLineIndex(x.frontmatter)),
                update_first_h2_title(x.body_content, new_title)))

\* ProcessMdWith that goes on without a second-level heading
ProcessMdWith_without_heading(content, x) ==
    IF ~x.ok THEN [content |-> content, ok |-> FALSE]
    ELSE IF TitleLineIndex(x.frontmatter) = 0 THEN [content |-> content, ok |-> FALSE]
    ELSE IF H2LineIndex(x.body_content) = 0
    THEN [content |-> Reconciled(x, extract_title_from_frontmatter(x.frontmatter)), ok |-> TRUE]
    ELSE [content |-> Reconciled(x, NewTitle(extract_title_from_frontmatter(x.frontmatter),
                                             find_first_h2_title(x.body_content))),
          ok |-> TRUE]

ProcessMdWith(content, x) ==
    IF ~x.ok THEN [content |-> content, ok |-> FALSE]
    ELSE IF TitleLineIndex(x.frontmatter) = 0 THEN [content |-> content, ok |-> FALSE]
    ELSE IF H2LineIndex(x.body_content) = 0 THEN [content |-> content, ok |-> FALSE]
    ELSE [content |-> Reconciled(x, NewTitle(extract_title_from_frontmatter(x.frontmatter),
                                             find_first_h2_title(x.body_content))),
          ok |-> TRUE]

\* process_md_file on a file of the given content: what it leaves, and
\* whether it reports the file as processed
process_md_file(content) == ProcessMdWith(content, extract_frontmatter_and_content(content))

\* ------------------------------------------------------------------------
\* formater.py: process_specific_files
\* ------------------------------------------------------------------------

UpperCase == <<"A", "B", "C", "D", "E", "F", "G", "H", "I", "J", "K", "L", "M", "N", "O", "P", "Q",
               "R", "S", "T", "U", "V", "W", "X", "Y", "Z">>

LowerCase == <<"a", "b", "c", "d", "e", "f", "g", "h", "i", "j", "k", "l", "m", "n", "o", "p", "q",
               "r", "s", "t", "u", "v", "w", "x", "y", "z">>

\* str.lower()
Lower(s) ==
    [i \in 1..Len(s) |->
        IF \E k \in 1..26 : UpperCase[k] = s[i]
        THEN LowerCase[CHOOSE k \in 1..26 : UpperCase[k] = s[i]] ELSE s[i]]

SYLLABUS == <<"s", "y", "l", "l", "a", "b", "u", "s">>

PRACTICE == <<"p", "r", "a", "c", "t", "i", "c", "e">>

\* the first part of the path that names a folder type decides
RECURSIVE determine_file_folder_type(_)
determine_file_folder_type(path_parts) ==
    IF path_parts = <<>> THEN "other"
    ELSE IF Contains(Lower(path_parts[1]), SYLLABUS) THEN "syllabus"
    ELSE IF Contains(Lower(path_parts[1]), PRACTICE) THEN "practice"
    ELSE determine_file_folder_type(Drop(path_parts, 1))

\* re.sub(r'[#\s]+$', '', title).strip()
RECURSIVE StripHashes(_)
StripHashes(title) ==
    IF title # <<>> /\ (title[Len(title)] = "#" \/ IsSpace(title[Len(title)]))
    THEN StripHashes(Take(title, Len(title) - 1)) ELSE Strip(title)

\* where ^##\s+ can match with MULTILINE: a line that starts with ## followed
\* by whitespace, the newline that ends the line included
IsH2Start(body, i) ==
    /\ StartsWith(body[i], <<"#", "#">>)
    /\ IF Len(body[i]) = 2 THEN i < Len(body) ELSE IsSpace(body[i][3])

\* (.+?)$ after the greedy \s+, which runs over blank lines: the rest of the
\* first line from i on that has one, <<>> when the text ends first
RECURSIVE RestAfterSpaces(_, _, _)
RestAfterSpaces(body, i, from) ==
    IF i > Len(body) THEN <<>>
    ELSE IF LStrip(Drop(body[i], from)) # <<>> THEN LStrip(Drop(body[i], from))
    ELSE RestAfterSpaces(body, i + 1, 0)

\* formater.extract_first_h2_title; <<>> is None
extract_first_h2_title(body) ==
    IF body = << <<>> >> \/ ~\E i \in 1..Len(body) : IsH2Start(body, i) THEN <<>>
    ELSE StripHashes(Strip(RestAfterSpaces(
             body, CHOOSE i \in 1..Len(body) : IsH2Start(body, i) /\ \A j \in 1..(i - 1) : ~IsH2Start(body, j),
             2)))

\* 2. title, by folder type: the first heading in a practice folder, the
\* prefix cleanup elsewhere
RuleH2With(r, h2_title) ==
    IF h2_title # <<>> /\ VStr(h2_title) # GetKey(r.frontmatter, K_title)
    THEN [r EXCEPT !.frontmatter = SetKey(@, K_title, VStr(h2_title)), !.updated = TRUE]
    ELSE r

RuleTitleIn(folder_type, r, body) ==
    IF ~HasKey(r.frontmatter, K_title) THEN r
    ELSE IF folder_type = "practice" THEN RuleH2With(r, extract_first_h2_title(body))
    ELSE RuleTitle(r)

\* 5. weight, only when the file has none
RuleWeight(r, max_weight) ==
    IF ~HasKey(r.frontmatter, K_weight)
    THEN [r EXCEPT !.frontmatter = SetKey(@, K_weight, VInt(max_weight + 1)), !.updated = TRUE]
    ELSE r

NormalizeSpecific(e, body, path_parts, max_weight) ==
    RuleWeight(
        RuleSet(RuleSet(RuleTitleIn(determine_file_folder_type(path_parts),
                                    RuleDate([frontmatter |-> e, updated |-> FALSE, raised |-> FALSE]),
                                    body),
                        K_slug, VStr(extract_slug_from_filename(path_parts[Len(path_parts)]))),
                K_type, VStr(Docs)),
        max_weight)

SpecificWritten(content, body, r) ==
    IF r.raised THEN [content |-> content, stat |-> "error"]
    ELSE IF r.updated THEN [content |-> Rebuild(format_frontmatter(r.frontmatter), body), stat |-> "updated"]
    ELSE [content |-> content, stat |-> "processed"]

\* a header that is a list or a string fails at frontmatter['slug'] = slug
\* with TypeError, inside the try block
SpecificParsed(content, p, path_parts, max_weight) ==
    IF p.fm.t = "none" THEN [content |-> content, stat |-> "skipped"]
    ELSE IF p.fm.t # "map" THEN [content |-> content, stat |-> "error"]
    ELSE SpecificWritten(content, remove_include_lines(p.body),
                         NormalizeSpecific(p.fm.e, remove_include_lines(p.body), path_parts, max_weight))

\* the body of the loop of process_specific_files for one existing .md file
\* of the given content and path, in a directory of maximum weight max_weight
SpecificFile(content, path_parts, max_weight) ==
    SpecificParsed(content, parse_frontmatter(content), path_parts, max_weight)

\* ------------------------------------------------------------------------
\* The scripts as batches over the content root
\* ------------------------------------------------------------------------

PathParts(f) == <<FileDir(f), FileName(f)>>

\* formater.py main with file arguments: process_specific_files(sys.argv[1:]),
\* the arguments being one path or the .md files of the root
ArgsStart ==
    /\ script = "formater_args" /\ pc = "idle" /\ run < MaxRuns
    /\ \E S \in {{f} : f \in Files} \cup {GlobMd(ROOT)} : /\ S # {}
                                                          /\ queue' = Listing(S)
    /\ total' = [processed |-> 0, updated |-> 0]
    /\ pc' = "files"
    /\ UNCHANGED <<script, fs, run, todo, files_info, idx, fnVars, orgVars>>

ArgsApply(f, out) ==
    /\ fs' = [fs EXCEPT ![f] = out.content]
    /\ total' = [processed |-> total.processed + (IF out.stat \in {"updated", "processed"} THEN 1 ELSE 0),
                 updated |-> total.updated + (IF out.stat = "updated" THEN 1 ELSE 0)]

\* one file path: skipped when the file does not exist or is no .md file
ArgsProcess ==
    /\ script = "formater_args" /\ pc = "files" /\ queue # <<>>
    /\ IF ~Exists(queue[1]) \/ ~EndsWith(Lower(FileName(queue[1])), DOT_MD)
       THEN UNCHANGED <<fs, total>>
       ELSE ArgsApply(queue[1], SpecificFile(fs[queue[1]], PathParts(queue[1]),
                                             get_max_weight_in_directory(FileDir(queue[1]))))
    /\ queue' = Tail(queue)
    /\ UNCHANGED <<script, pc, run, todo, files_info, idx, fnVars, orgVars>>

ArgsFinish ==
    /\ script = "formater_args" /\ pc = "files" /\ queue = <<>>
    /\ run' = run + 1
    /\ pc' = "idle"
    /\ UNCHANGED <<script, fs, todo, queue, files_info, idx, total, fnVars, orgVars>>

\* TitleFixer.scan_and_fix: rglob("*.md") without the names that start with
\* an underscore; with no file left it returns before the statistics
FixStart ==
    /\ script = "fixer" /\ pc = "idle" /\ run < MaxRuns
    /\ queue' = Listing({f \in Files : Exists(f) /\ EndsWith(FileName(f), DOT_MD) /\ FileName(f)[1] # "_"})
    /\ total' = [total_files |-> 0, fixed_files |-> 0, errors |-> 0]
    /\ pc' = "scan"
    /\ UNCHANGED <<script, fs, run, todo, files_info, idx, fnVars, orgVars>>

FixApply(f, out) ==
    /\ fs' = [fs EXCEPT ![f] = out.content]
    /\ total' = [total_files |-> total.total_files + 1,
                 fixed_files |-> total.fixed_files + (IF out.stat = "fixed_files" THEN 1 ELSE 0),
                 errors |-> total.errors + (IF out.stat = "errors" THEN 1 ELSE 0)]

FixProcess ==
    /\ script = "fixer" /\ pc = "scan" /\ queue # <<>>
    /\ FixApply(queue[1], TitleFixer_process_file(fs[queue[1]]))
    /\ queue' = Tail(queue)
    /\ UNCHANGED <<script, pc, run, todo, files_info, idx, fnVars, orgVars>>

FixFinish ==
    /\ script = "fixer" /\ pc = "scan" /\ queue = <<>>
    /\ run' = run + 1
    /\ pc' = "idle"
    /\ UNCHANGED <<script, fs, todo, queue, files_info, idx, total, fnVars, orgVars>>

\* modify_md_titles.py main: Path(target_dir).glob("*.md") of the directory
\* given on the command line, names with an underscore included
ModStart ==
    /\ script = "modify" /\ pc = "idle" /\ run < MaxRuns
    /\ \E d \in {ROOT, SUB} : /\ todo' = <<d>>
                              /\ queue' = Listing(GlobMd(d))
    /\ total' = [success_count |-> 0]
    /\ pc' = "glob"
    /\ UNCHANGED <<script, fs, run, files_info, idx, fnVars, orgVars>>

ModApply(f, out) ==
    /\ fs' = [fs EXCEPT ![f] = out.content]
    /\ total' = [success_count |-> total.success_count + (IF out.ok THEN 1 ELSE 0)]

ModProcess ==
    /\ script = "modify" /\ pc = "glob" /\ queue # <<>>
    /\ ModApply(queue[1], process_md_file(fs[queue[1]]))
    /\ queue' = Tail(queue)
    /\ UNCHANGED <<script, pc, run, todo, files_info, idx, fnVars, orgVars>>

ModFinish ==
    /\ script = "modify" /\ pc = "glob" /\ queue = <<>>
    /\ run' = run + 1
    /\ pc' = "idle"
    /\ todo' = <<>>
    /\ UNCHANGED <<script, fs, queue, files_info, idx, total, fnVars, orgVars>>

\* any of the scripts, on a root of at most four files
InitScripts ==
    /\ \E s \in {"formater", "formater_args", "fixer", "modify"} : InitRoot(s)
    /\ fs[3] = <<>>

NextScripts ==
    \/ FmtStart \/ FmtEnterDir \/ FmtCollect \/ FmtAssign \/ FmtProcess \/ FmtDirDone \/ FmtFinish
    \/ ArgsStart \/ ArgsProcess \/ ArgsFinish
    \/ FixStart \/ FixProcess \/ FixFinish
    \/ ModStart \/ ModProcess \/ ModFinish

SpecScripts == InitScripts /\ [][NextScripts]_vars

\* C9 concerns the files a script cannot read a header from
NoMarkerPair(c) == c # <<>> /\ ClosingLine(c) = 0

BadHeader(c) ==
    c # <<>> /\ ClosingLine(c) > 0 /\ yaml_safe_load(SubSeq(c, 2, ClosingLine(c) - 1)).t = "error"

DASH_GESP == <<"-", "g", "e", "s", "p", "-">>

\* ^\d{4}-\d{2}-\d{2}-gesp-.*\.md$
\* is_gesp_file that accepts every Markdown file name
is_gesp_file_any_md(filename) == EndsWith(filename, DOT_MD)

is_gesp_file(filename) ==
    /\ IsYmdAt(filename, 1)
    /\ Len(filename) >= 19
    /\ SubSeq(filename, 11, 16) = DASH_GESP
    /\ EndsWith(filename, DOT_MD)

\* self.level_mapping, in insertion order
level_mapping ==
    << [name |-> <<"yi", "ji">>, num |-> <<"1">>], [name |-> <<"er", "ji">>, num |-> <<"2">>],
       [name |-> <<"san", "ji">>, num |-> <<"3">>], [name |-> <<"si", "ji">>, num |-> <<"4">>],
       [name |-> <<"wu", "ji">>, num |-> <<"5">>], [name |-> <<"liu", "ji">>, num |-> <<"6">>],
       [name |-> <<"qi", "ji">>, num |-> <<"7">>], [name |-> <<"ba", "ji">>, num |-> <<"8">>] >>

\* what the loop over categories visits, each as str(category): the items of
\* a list, the characters of a string
CategoryItems(categories) ==
    IF categories.t = "list" THEN [i \in 1..Len(categories.l) |-> PyStr(categories.l[i])]
    ELSE [i \in 1..Len(categories.s) |-> <<categories.s[i]>>]

HasLevel(item) == \E k \in 1..8 : Contains(item, level_mapping[k].name)

\* the level number of the first category that holds a level name, <<>> for
\* None; "raise" when categories cannot be iterated
extract_level_from_categories(categories) ==
    IF Falsy(categories) THEN [t |-> "ok", level |-> <<>>]
    ELSE IF categories.t \notin {"list", "str"} THEN [t |-> "raise", level |-> <<>>]
    ELSE IF ~\E i \in 1..Len(CategoryItems(categories)) : HasLevel(CategoryItems(categories)[i])
    THEN [t |-> "ok", level |-> <<>>]
    ELSE [t |-> "ok",
          level |-> level_mapping[
              CHOOSE k \in 1..8 :
                  \E i \in 1..Len(CategoryItems(categories)) :
                      /\ Contains(CategoryItems(categories)[i], level_mapping[k].name)
                      /\ \A j \in 1..(i - 1) : ~HasLevel(CategoryItems(categories)[j])
                      /\ \A m \in 1..(k - 1) : ~Contains(CategoryItems(categories)[i], level_mapping[m].name)
          ].num]

ZHENTI == <<"zhen", "ti">>

LIANXI == <<"lian", "xi">>

KNOWLEDGE == <<"k", "n", "o", "w", "l", "e", "d", "g", "e">>

\* word in title, for the values a title can have: substring of a string,
\* element of a list, TypeError otherwise
TitleHas(title, word) ==
    IF title.t = "str" THEN Contains(title.s, word)
    ELSE \E i \in 1..Len(title.l) : title.l[i] = VStr(word)

\* SubdirFor with the practice rule before the real-exam rule
SubdirFor_practice_first(title, filename) ==
    IF TitleHas(title, LIANXI) THEN PRACTICE
    ELSE IF TitleHas(title, ZHENTI) THEN <<"c", "o", "d", "e", "r", "e", "a", "l">>
    ELSE IF Contains(Lower(filename), SYLLABUS) THEN SYLLABUS
    ELSE IF Contains(Lower(filename), KNOWLEDGE) THEN KNOWLEDGE
    ELSE <<"o", "t", "h", "e", "r", "s">>

SubdirFor(title, filename) ==
    IF TitleHas(title, ZHENTI) THEN <<"c", "o", "d", "e", "r", "e", "a", "l">>
    ELSE IF TitleHas(title, LIANXI) THEN PRACTICE
    ELSE IF Contains(Lower(filename), SYLLABUS) THEN SYLLABUS
    ELSE IF Contains(Lower(filename), KNOWLEDGE) THEN KNOWLEDGE
    ELSE <<"o", "t", "h", "e", "r", "s">>

\* f"{level}/{subdir}" as the pair <<level, subdir>>; ok is FALSE for None
\* and for an exception, which analyze_files catches
SubdirWith(lv, title, filename) ==
    IF lv.t = "raise" \/ lv.level = <<>> THEN [ok |-> FALSE, subdir |-> <<>>]
    ELSE IF title.t \notin {"str", "list"} THEN [ok |-> FALSE, subdir |-> <<>>]
    ELSE [ok |-> TRUE, subdir |-> <<lv.level, SubdirFor(title, filename)>>]

determine_subdirectory(frontmatter, filename) ==
    SubdirWith(extract_level_from_categories(
                   IF HasKey(frontmatter, K_categories) THEN GetKey(frontmatter, K_categories)
                   ELSE VList(<<>>)),
               IF HasKey(frontmatter, K_title) THEN GetKey(frontmatter, K_title) ELSE VStr(<<>>),
               filename)

\* the part of analyze_files before the existence check: where the file
\* would go, ok FALSE when it is passed over
ClassifyParsed(p, filename) ==
    IF p.fm.t # "map" \/ p.fm.e = <<>> THEN [ok |-> FALSE, subdir |-> <<>>]
    ELSE determine_subdirectory(p.fm.e, filename)

Classify(content, filename) ==
    IF ~is_gesp_file(filename) THEN [ok |-> FALSE, subdir |-> <<>>]
    ELSE ClassifyParsed(parse_frontmatter(content), filename)

\* ------------------------------------------------------------------------
\* The functions of the scripts on their own, second part: convert_date_format,
\* process_md_file, TitleFixer.process_file, determine_subdirectory
\* ------------------------------------------------------------------------

Ymds == {D_dateonly, Take(D_canon, 10)}

HourMinutes == {<<"1", "0", ":", "0", "0">>, <<"2", "3", ":", "5", "9">>}

Seconds == {<<":", "0", "0">>, <<":", "0", "7">>}

Offsets == {<<>>, <<"+", "0", "8", "0", "0">>, <<"+", "0", "9", "0", "0">>, <<"-", "0", "5", "0", "0">>}

\* the values a date field holds after yaml.safe_load: strings in and out
\* of the three shapes, date and datetime objects, and values of other kinds
DateInputs ==
    {VStr(d) : d \in Ymds} \cup {VDate(d) : d \in Ymds}
    \cup {VStr(d \o g \o hm \o g2 \o z) :
             d \in Ymds, g \in {<<" ">>, <<" ", " ">>}, hm \in HourMinutes, g2 \in {<<>>, <<" ">>},
             z \in Offsets}
    \cup {VStr(d \o <<"T">> \o hm \o sec \o z) : d \in Ymds, hm \in HourMinutes, sec \in Seconds, z \in Offsets}
    \cup {VDateTime(d \o <<" ">> \o hm \o sec) : d \in Ymds, hm \in HourMinutes, sec \in Seconds}
    \cup {VStr(d \o <<"x">>) : d \in Ymds}
    \cup {VStr(D_words), VStr(<<>>), VNull, VInt(0), VInt(2024)}

T_basics == <<"Basics">>

H_variables == <<"Variables", " ", "and", " ", "Basics">>

\* title lines of a header: plain, quoted, a word, indented
ModTitleLines ==
    {HeaderLine(K_title, <<"a">>), HeaderLine(K_title, <<"dq", "a", " ", "b", "dq">>),
     HeaderLine(K_title, T_basics), <<" ", " ">> \o HeaderLine(K_title, <<"a">>),
     HeaderLine(K_title, <<"b", "dq">>)}

ModHeaders ==
    {<<tl>> : tl \in ModTitleLines} \cup {<<HeaderLine(K_date, D_dateonly), tl>> : tl \in ModTitleLines}
    \cup {<<HeaderLine(K_date, D_dateonly)>>}

\* bodies: a heading that holds the title a, headings that do not, the
\* example heading without a final newline, an indented heading, and bodies
\* without a second-level heading
ModBodies ==
    {<<<<"#", "#", " ", "x", " ", "a">>, <<>>>>,
     <<<<"t", "e", "x", "t">>, <<"#", "#", " ", " ", "h", " ">>, <<"#", "#", " ", "a">>, <<>>>>,
     <<<<"#", "#", " ", "a", "b">>, <<>>, <<>>>>,
     <<<<"#", "#", " ">> \o H_variables>>,
     <<<<" ", " ", "#", "#", " ", "h">>, <<>>>>,
     <<<<"#", "#", " ", "dq", "a", "dq">>, <<"t", "e", "x", "t">>>>,
     <<<<"t", "e", "x", "t">>, <<>>, <<" ">>, <<>>>>,
     <<<<"#", "#", "#", " ", "x">>, <<"#", "#">>, <<>>>>}

ModInputs == {Doc(h, b) : h \in ModHeaders, b \in ModBodies} \cup {DocNoMarker}

\* title lines of a header: null, empty, blank, a word, the integer 0
FixTitleLines ==
    {K_title \o <<":">>, HeaderLine(K_title, <<"dq", "dq">>), HeaderLine(K_title, <<"dq", " ", " ", "dq">>),
     HeaderLine(K_title, <<"x">>), HeaderLine(K_title, <<"0">>)}

\* headers without a title, with the title first and with the title last
FixHeaders ==
    {<<HeaderLine(K_slug, <<"a">>)>>}
    \cup {<<tl, HeaderLine(K_slug, <<"a">>)>> : tl \in FixTitleLines}
    \cup {<<HeaderLine(K_date, D_dateonly), tl>> : tl \in FixTitleLines}

H_intro == <<"Intro", " ", "Basics">>

\* bodies: the example heading, a heading with a colon after other text, an
\* indented heading after a third-level heading and a bare ##, no heading
FixBodies ==
    {<<<<"#", "#", " ">> \o H_intro, <<>>>>,
     <<<<"t", "e", "x", "t">>, <<"#", "#", " ", " ", "a", ":", " ", "b", " ">>, <<"#", "#", " ", "z">>, <<>>>>,
     <<<<"#", "#", "#", " ", "x">>, <<"#", "#">>, <<" ", " ", "#", "#", " ", "h", " ">>, <<>>>>,
     <<<<"t", "e", "x", "t">>, <<>>>>}

FixInputs ==
    {Doc(h, b) : h \in FixHeaders, b \in FixBodies}
    \cup {DocNoMarker, DocBadYaml, DocListHeader, Doc(<< <<>> >>, Body_h2)}

\* file names of the source directory: with syllabus and knowledge, with
\* knowledge, with Syllabus, with neither
F_syllabus_knowledge == <<"2", "0", "2", "4", "-", "1", "1", "-", "0", "3", "-", "g", "e", "s", "p", "-", "s", "y", "l", "l", "a", "b", "u", "s", "-", "k", "n", "o", "w", "l", "e", "d", "g", "e", ".", "m", "d">>

F_knowledge == <<"2", "0", "2", "4", "-", "1", "1", "-", "0", "3", "-", "g", "e", "s", "p", "-", "k", "n", "o", "w", "l", "e", "d", "g", "e", ".", "m", "d">>

F_Syllabus == <<"2", "0", "2", "4", "-", "1", "1", "-", "0", "3", "-", "g", "e", "s", "p", "-", "S", "y", "l", "l", "a", "b", "u", "s", ".", "m", "d">>

F_plain == <<"2", "0", "2", "4", "-", "1", "1", "-", "0", "3", "-", "g", "e", "s", "p", "-", "a", ".", "m", "d">>

SubdirFilenames == {F_syllabus_knowledge, F_knowledge, F_Syllabus, F_plain}

\* title fields: both words, one of them, neither, an integer, a list, none
SubdirTitles ==
    {<<>>} \cup
    {<<[k |-> K_title, v |-> t]>> :
        t \in {VStr(<<"er", "ji">> \o LIANXI \o ZHENTI), VStr(ZHENTI \o <<"shi", "li">>),
               VStr(<<"shi", "li">> \o LIANXI), VStr(<<"shi", "li">>), VInt(7), VList(<<VStr(ZHENTI)>>)}}

\* categories fields: one level, a level in the second category, two levels
\* in two categories, two level names in one category, no level, an empty
\* list, a string, null, none
SubdirCategories ==
    {<<>>} \cup
    {<<[k |-> K_categories, v |-> c]>> :
        c \in {VList(<<VStr(<<"er", "ji">>)>>),
               VList(<<VStr(<<"x">>), VStr(<<"C", "+", "+", "ba", "ji">>)>>),
               VList(<<VStr(<<"san", "ji">>), VStr(<<"yi", "ji">>)>>),
               VList(<<VStr(<<"qi", "ji", "si", "ji">>)>>),
               VList(<<VStr(<<"x">>), VInt(5)>>),
               VList(<<>>), VStr(<<"er", "ji">>), VNull}}

SubdirInputs ==
    {[frontmatter |-> t \o c, filename |-> f] :
        t \in SubdirTitles, c \in SubdirCategories, f \in SubdirFilenames}

\* fields a header can hold: known ones, and two that are not in field_order
FieldPool ==
    {[k |-> K_weight, v |-> VInt(3)], [k |-> K_title, v |-> VStr(<<"x", ":", " ", "y">>)],
     [k |-> <<"zz">>, v |-> VStr(<<"v">>)], [k |-> K_date, v |-> VStr(D_canon)],
     [k |-> <<"aa">>, v |-> VNull], [k |-> K_categories, v |-> VList(<<VStr(<<"er", "ji">>)>>)]}

\* longest frontmatter, in fields, handed to format_frontmatter
MaxFields == 3

\* the dicts of at most n fields, as the sequence of their items
RECURSIVE Frontmatters(_)
Frontmatters(n) ==
    IF n = 0 THEN {<<>>}
    ELSE LET F == Frontmatters(n - 1)
         IN F \cup {Append(e, x) : e \in {u \in F : Len(u) = n - 1},
                                   x \in {y \in FieldPool : TRUE}}

FormatInputs == {e \in Frontmatters(MaxFields) : e # <<>> /\ \A i, j \in 1..Len(e) : i # j => e[i].k # e[j].k}

\* file names: with and without the date prefix, with ".md" inside the name as
\* well as at its end
NameStems ==
    {<<"a">>, <<"a", ".", "b">>, <<"a", ".", "m", "d">>, <<"m", "y", ".", "m", "d", "n", "o", "t", "e", "s">>,
     <<"x", "-", "a">>}

NamePrefixes == {<<>>} \cup {d \o <<"-">> : d \in Ymds}

SlugInputs == {p \o n \o DOT_MD : p \in NamePrefixes, n \in NameStems}

\* bodies for the heading extractors: those of the two scripts, a heading
\* closed by hashes, and the empty body
H2Bodies == ModBodies \cup FixBodies \cup {<<<<"#", "#", " ", "a", " ", "#", "#">>, <<>>>>, << <<>> >>}

H2Extractors == {"extract_first_h2_title", "TitleFixer_extract_first_h2_title", "find_first_h2_title"}

InitCalls ==
    /\ \/ \E d \in DateInputs : call = [fn |-> "convert_date_format", arg |-> d]
       \/ \E b \in H2Bodies, fn \in H2Extractors : call = [fn |-> fn, arg |-> b]
       \/ \E f \in SlugInputs : call = [fn |-> "extract_slug_from_filename", arg |-> f]
       \/ \E e \in FormatInputs : call = [fn |-> "format_frontmatter", arg |-> e]
       \/ \E e \in FormatInputs : call = [fn |-> "TitleFixer_format_frontmatter", arg |-> e]
       \/ \E x \in SubdirInputs : call = [fn |-> "determine_subdirectory", arg |-> x]
       \/ \E c \in ModInputs : call = [fn |-> "process_md_file", arg |-> c]
       \/ \E c \in FixInputs : call = [fn |-> "TitleFixer_process_file", arg |-> c]
    /\ ret = NoRet
    /\ fpc = "call"
    /\ BatchIdle
    /\ OrgIdle

Apply_convert_date_format ==
    /\ fpc = "call" /\ call.fn = "convert_date_format"
    /\ ret' = convert_date_format(call.arg)
    /\ fpc' = "return"
    /\ UNCHANGED <<call, batchVars, orgVars>>

Apply_process_md_file ==
    /\ fpc = "call" /\ call.fn = "process_md_file"
    /\ ret' = process_md_file(call.arg)
    /\ fpc' = "return"
    /\ UNCHANGED <<call, batchVars, orgVars>>

\* process_md_file run a second time, on the file the first run wrote
Apply_process_md_file_again ==
    /\ fpc = "return" /\ call.fn = "process_md_file" /\ ret.ok
    /\ call' = [fn |-> "process_md_file_again", arg |-> ret.content]
    /\ ret' = process_md_file(ret.content)
    /\ UNCHANGED <<fpc, batchVars, orgVars>>

Apply_TitleFixer_process_file ==
    /\ fpc = "call" /\ call.fn = "TitleFixer_process_file"
    /\ ret' = TitleFixer_process_file(call.arg)
    /\ fpc' = "return"
    /\ UNCHANGED <<call, batchVars, orgVars>>

Apply_determine_subdirectory ==
    /\ fpc = "call" /\ call.fn = "determine_subdirectory"
    /\ ret' = determine_subdirectory(call.arg.frontmatter, call.arg.filename)
    /\ fpc' = "return"
    /\ UNCHANGED <<call, batchVars, orgVars>>

Apply_format_frontmatter ==
    /\ fpc = "call" /\ call.fn = "format_frontmatter"
    /\ ret' = format_frontmatter(call.arg)
    /\ fpc' = "return"
    /\ UNCHANGED <<call, batchVars, orgVars>>

Apply_TitleFixer_format_frontmatter ==
    /\ fpc = "call" /\ call.fn = "TitleFixer_format_frontmatter"
    /\ ret' = TitleFixer_format_frontmatter(call.arg)
    /\ fpc' = "return"
    /\ UNCHANGED <<call, batchVars, orgVars>>

Apply_extract_slug_from_filename ==
    /\ fpc = "call" /\ call.fn = "extract_slug_from_filename"
    /\ ret' = extract_slug_from_filename(call.arg)
    /\ fpc' = "return"
    /\ UNCHANGED <<call, batchVars, orgVars>>

Apply_extract_first_h2_title ==
    /\ fpc = "call" /\ call.fn = "extract_first_h2_title"
    /\ ret' = extract_first_h2_title(call.arg)
    /\ fpc' = "return"
    /\ UNCHANGED <<call, batchVars, orgVars>>

Apply_TitleFixer_extract_first_h2_title ==
    /\ fpc = "call" /\ call.fn = "TitleFixer_extract_first_h2_title"
    /\ ret' = TitleFixer_extract_first_h2_title(call.arg)
    /\ fpc' = "return"
    /\ UNCHANGED <<call, batchVars, orgVars>>

\* find_first_h2_title returns None, here <<>>, when no line matches
Apply_find_first_h2_title ==
    /\ fpc = "call" /\ call.fn = "find_first_h2_title"
    /\ ret' = IF H2LineIndex(call.arg) = 0 THEN <<>> ELSE find_first_h2_title(call.arg)
    /\ fpc' = "return"
    /\ UNCHANGED <<call, batchVars, orgVars>>

NextCalls ==
    \/ Apply_extract_first_h2_title
    \/ Apply_TitleFixer_extract_first_h2_title
    \/ Apply_find_first_h2_title
    \/ Apply_process_md_file_again
    \/ Apply_extract_slug_from_filename
    \/ Apply_format_frontmatter
    \/ Apply_TitleFixer_format_frontmatter
    \/ Apply_convert_date_format
    \/ Apply_process_md_file
    \/ Apply_TitleFixer_process_file
    \/ Apply_determine_subdirectory

SpecCalls == InitCalls /\ [][NextCalls]_vars

\* the three accepted shapes, as whole strings
ShapeDateOnly(s) == Len(s) = 10 /\ IsYmdAt(s, 1)

ShapeDateHourMinute(s) ==
    /\ IsYmdAt(s, 1) /\ SpacesFrom(s, 11) >= 1 /\ IsHmAt(s, 11 + SpacesFrom(s, 11))
    /\ LET rest == LStrip(Drop(s, 15 + SpacesFrom(s, 11)))
       IN rest = <<>> \/ (Len(rest) = 5 /\ IsOffsetAt(rest, 1))

ShapeFull(s) ==
    /\ IsYmdAt(s, 1) /\ Len(s) >= 19 /\ s[11] = "T" /\ IsHmsAt(s, 12)
    /\ Len(s) = 19 \/ (Len(s) = 24 /\ IsOffsetAt(s, 20))

\* YYYY-MM-DDTHH:MM:SS+ZZZZ for a string of one of the three shapes
CanonicalOf(s) ==
    Take(s, 10) \o <<"T">>
    \o (IF ShapeDateOnly(s) THEN <<"2", "0", ":", "0", "0", ":", "0", "0">>
        ELSE IF ShapeFull(s) THEN SubSeq(s, 12, 19)
        ELSE SubSeq(s, 11 + SpacesFrom(s, 11), 15 + SpacesFrom(s, 11)) \o <<":", "0", "0">>)
    \o (IF Len(s) >= 15 /\ IsOffsetAt(s, Len(s) - 4) THEN Drop(s, Len(s) - 5)
        ELSE <<"+", "0", "8", "0", "0">>)

\* C14: for every date value of one of the three accepted shapes
\* convert_date_format outputs YYYY-MM-DDTHH:MM:SS+ZZZZ, with 20:00:00 for a
\* missing time and +0800 for a missing offset; 2024-11-03 10:00 yields
\* 2024-11-03T10:00:00+0800.
C14_AcceptedShapesCanonical ==
    /\ (/\ Returned("convert_date_format") /\ call.arg.t \in {"str", "date"}
        /\ (ShapeDateOnly(call.arg.s) \/ ShapeDateHourMinute(call.arg.s) \/ ShapeFull(call.arg.s)))
       => /\ ret = VStr(CanonicalOf(call.arg.s))
          /\ Len(ret.s) = 24 /\ IsYmdAt(ret.s, 1) /\ ret.s[11] = "T" /\ IsHmsAt(ret.s, 12)
          /\ IsOffsetAt(ret.s, 20)
    /\ (Returned("convert_date_format") /\ call.arg = VStr(D_hm)) => ret = VStr(D_canon)

\* the example has been converted
C14_Witness == Returned("convert_date_format") /\ call.arg = VStr(D_hm) /\ ret = VStr(D_canon)

\* the text after title: on the title line of a header, as written
TitleTextOf(frontmatter) ==
    LStrip(Drop(Strip(frontmatter[TitleLineIndex(frontmatter)]), Len(K_title) + 1))

\* the document has a header with a title line and a second-level heading
Reconcilable(content) ==
    /\ extract_frontmatter_and_content(content).ok
    /\ TitleLineIndex(extract_frontmatter_and_content(content).frontmatter) > 0
    /\ H2LineIndex(extract_frontmatter_and_content(content).body_content) > 0

TitleBefore(content) ==
    extract_title_from_frontmatter(extract_frontmatter_and_content(content).frontmatter)

HeadingOf(content) == find_first_h2_title(extract_frontmatter_and_content(content).body_content)

\* title and heading text of the written file are both e
TitleAndHeadingAre(content, e) ==
    /\ Reconcilable(content)
    /\ TitleTextOf(extract_frontmatter_and_content(content).frontmatter) = e
    /\ HeadingOf(content) = e

C16_NoHeadingNoChange ==
    (/\ Returned("process_md_file")
     /\ H2LineIndex(extract_frontmatter_and_content(call.arg).body_content) = 0)
    => ret.content = call.arg /\ ~ret.ok

\* a document with a title, trailing blank lines and no second-level heading
\* has been passed over
C16_Witness ==
    /\ Returned("process_md_file")
    /\ extract_frontmatter_and_content(call.arg).ok
    /\ TitleLineIndex(extract_frontmatter_and_content(call.arg).frontmatter) > 0
    /\ H2LineIndex(extract_frontmatter_and_content(call.arg).body_content) = 0
    /\ normalize_end_lines(call.arg) # call.arg
    /\ ret.content = call.arg /\ ~ret.ok

\* the header is a mapping with at least one field
HasFields(content) ==
    parse_frontmatter(content).fm.t = "map" /\ parse_frontmatter(content).fm.e # <<>>

\* the title is missing, null or made of whitespace only
TitleIsEmpty(e) ==
    \/ ~HasKey(e, K_title)
    \/ GetKey(e, K_title).t = "null"
    \/ GetKey(e, K_title).t = "str" /\ \A i \in 1..Len(GetKey(e, K_title).s) : IsSpace(GetKey(e, K_title).s[i])

\* the body has a second-level heading
HasHeading(content) == H2LineIndex(parse_frontmatter(content).body) > 0

\* C17: for a document whose title is missing, null or whitespace-only and
\* whose body has a second-level heading, TitleFixer.process_file sets the
\* title to exactly the text of the first second-level heading; with first
\* heading ## Intro Basics the repaired title is Intro Basics.
C17_TitleFromFirstHeading ==
    /\ (/\ Returned("TitleFixer_process_file") /\ HasFields(call.arg)
        /\ TitleIsEmpty(parse_frontmatter(call.arg).fm.e) /\ HasHeading(call.arg))
       => /\ ret.stat = "fixed_files"
          /\ HasFields(ret.content)
          /\ HasKey(parse_frontmatter(ret.content).fm.e, K_title)
          /\ GetKey(parse_frontmatter(ret.content).fm.e, K_title)
                = VStr(find_first_h2_title(parse_frontmatter(call.arg).body))
          /\ parse_frontmatter(ret.content).body = parse_frontmatter(call.arg).body
    /\ (/\ Returned("TitleFixer_process_file")
        /\ call.arg = Doc(<<HeaderLine(K_slug, <<"a">>)>>, <<<<"#", "#", " ">> \o H_intro, <<>>>>))
       => ret.content = Doc(<<HeaderLine(K_title, H_intro), HeaderLine(K_slug, <<"a">>)>>,
                            <<<<"#", "#", " ">> \o H_intro, <<>>>>)

\* a document with a null title has been given the text of its heading,
\* which holds a colon
C17_Witness ==
    /\ Returned("TitleFixer_process_file") /\ HasFields(call.arg)
    /\ HasKey(parse_frontmatter(call.arg).fm.e, K_title)
    /\ GetKey(parse_frontmatter(call.arg).fm.e, K_title) = VNull
    /\ HasFields(ret.content)
    /\ GetKey(parse_frontmatter(ret.content).fm.e, K_title) = VStr(<<"a", ":", " ", "b">>)

\* C18: TitleFixer.process_file writes a file only when its title is
\* missing, null or whitespace-only and a second-level heading was found; a
\* document with a non-empty title is never modified.
C18_OnlyEmptyTitlesWritten ==
    (Returned("TitleFixer_process_file") /\ ret.content # call.arg)
    => /\ HasFields(call.arg)
       /\ TitleIsEmpty(parse_frontmatter(call.arg).fm.e)
       /\ HasHeading(call.arg)

\* a document with the title 0 and a heading has been left as it was
C18_Witness ==
    /\ Returned("TitleFixer_process_file") /\ HasFields(call.arg) /\ HasHeading(call.arg)
    /\ HasKey(parse_frontmatter(call.arg).fm.e, K_title)
    /\ GetKey(parse_frontmatter(call.arg).fm.e, K_title) = VInt(0)
    /\ ret.content = call.arg

\* the level token of the number n, and the number as the text of a
\* directory name
LevelToken(n) == <<<<"yi", "er", "san", "si", "wu", "liu", "qi", "ba">>[n], "ji">>

LevelDir(n) == <<<<"1", "2", "3", "4", "5", "6", "7", "8">>[n]>>

\* the text of the title field, empty when there is none
TitleTextIn(e) == IF HasKey(e, K_title) THEN GetKey(e, K_title).s ELSE <<>>

\* the subdirectory of the first rule that matches; letter case of the file
\* name is not told apart
FirstRule(title, filename) ==
    IF Contains(title, <<"zhen", "ti">>) THEN <<"c", "o", "d", "e", "r", "e", "a", "l">>
    ELSE IF Contains(title, <<"lian", "xi">>) THEN <<"p", "r", "a", "c", "t", "i", "c", "e">>
    ELSE IF Contains(Lower(filename), <<"s", "y", "l", "l", "a", "b", "u", "s">>)
    THEN <<"s", "y", "l", "l", "a", "b", "u", "s">>
    ELSE IF Contains(Lower(filename), <<"k", "n", "o", "w", "l", "e", "d", "g", "e">>)
    THEN <<"k", "n", "o", "w", "l", "e", "d", "g", "e">>
    ELSE <<"o", "t", "h", "e", "r", "s">>

\* C19: for a classifiable file determine_subdirectory returns level/subdir,
\* level the number 1..8 of a level token found in the category list and
\* subdir chosen by the first matching rule in the order: title holds zhen ti
\* -> codereal, title holds lian xi -> practice, filename holds syllabus ->
\* syllabus, filename holds knowledge -> knowledge, otherwise others.
C19_LevelAndFirstMatchingRule ==
    (Returned("determine_subdirectory") /\ ret.ok) =>
        /\ HasKey(call.arg.frontmatter, K_categories)
        /\ GetKey(call.arg.frontmatter, K_categories).t = "list"
        /\ \E n \in 1..8 :
              /\ ret.subdir[1] = LevelDir(n)
              /\ \E i \in 1..Len(GetKey(call.arg.frontmatter, K_categories).l) :
                    /\ GetKey(call.arg.frontmatter, K_categories).l[i].t = "str"
                    /\ Contains(GetKey(call.arg.frontmatter, K_categories).l[i].s, LevelToken(n))
        /\ (HasKey(call.arg.frontmatter, K_title) => GetKey(call.arg.frontmatter, K_title).t = "str")
           => ret.subdir[2] = FirstRule(TitleTextIn(call.arg.frontmatter), call.arg.filename)

\* a title that holds both words, on a file name that holds syllabus and
\* knowledge, has gone to codereal of level 8
C19_Witness ==
    /\ Returned("determine_subdirectory") /\ ret.ok
    /\ call.arg.filename = F_syllabus_knowledge
    /\ Contains(TitleTextIn(call.arg.frontmatter), <<"zhen", "ti">>)
    /\ Contains(TitleTextIn(call.arg.frontmatter), <<"lian", "xi">>)
    /\ ret.subdir = <<<<"8">>, <<"c", "o", "d", "e", "r", "e", "a", "l">>>>

\* the time the date text s carries after its day, as HH:MM:SS (an HH:MM
\* counts with seconds 00); <<>> when it carries none
TimeCarried(s) ==
    LET p == IF Len(s) >= 11 /\ s[11] = "T" THEN 12 ELSE 11 + SpacesFrom(s, 11)
    IN IF p = 11 THEN <<>>
       ELSE IF IsHmsAt(s, p) THEN SubSeq(s, p, p + 7)
       ELSE IF IsHmAt(s, p) THEN SubSeq(s, p, p + 4) \o <<":", "0", "0">>
       ELSE <<>>

\* the offset the date text s ends with, +HHMM or -HHMM; <<>> when it ends
\* with none
OffsetCarried(s) ==
    IF /\ Len(s) >= 20 /\ s[Len(s) - 4] \in {"+", "-"}
       /\ \A k \in 0..3 : s[Len(s) - k] \in Digits
    THEN SubSeq(s, Len(s) - 4, Len(s)) ELSE <<>>

\* C29: convert_date_format only fills in what is missing: a time the input
\* carries, seconds included, and an offset it carries, positive or
\* negative, are in the output; 20:00:00 and +0800 stand only for parts the
\* input does not have.
C29_OnlyMissingPartsDefaulted ==
    (/\ Returned("convert_date_format")
     /\ call.arg.t \in {"str", "date", "datetime"} /\ IsYmdAt(call.arg.s, 1))
    => ret = VStr(Take(call.arg.s, 10) \o <<"T">>
                  \o (IF TimeCarried(call.arg.s) # <<>> THEN TimeCarried(call.arg.s)
                      ELSE <<"2", "0", ":", "0", "0", ":", "0", "0">>)
                  \o (IF OffsetCarried(call.arg.s) # <<>> THEN OffsetCarried(call.arg.s)
                      ELSE <<"+", "0", "8", "0", "0">>))

\* C30: the three extractors of the first second-level heading agree: on
\* every body each returns what the two others return, the same heading
\* text or no heading (<<>>).
C30_ExtractorsAgree ==
    (fpc = "return" /\ call.fn \in H2Extractors)
    => /\ ret = extract_first_h2_title(call.arg)
       /\ ret = TitleFixer_extract_first_h2_title(call.arg)
       /\ ret = (IF H2LineIndex(call.arg) = 0 THEN <<>> ELSE find_first_h2_title(call.arg))

KeysWritten(lines) ==
    LET kv == SelectSeq(lines, LAMBDA s : s # <<>> /\ s[1] # "-" /\ ~IsSpace(s[1]) /\ ColonPos(s) > 1)
    IN [i \in 1..Len(kv) |-> Take(kv[i], ColonPos(kv[i]) - 1)]

\* position of the key k in the canonical order, 0 for a key that is not in
\* it
CanonicalRank(k) ==
    LET order == << <<"layout">>, <<"title">>, <<"date">>, <<"author">>, <<"comments">>, <<"tags">>,
                    <<"categories">>, <<"slug">>, <<"type">>, <<"weight">> >>
    IN IF \E i \in 1..10 : order[i] = k THEN CHOOSE i \in 1..10 : order[i] = k ELSE 0

PositionIn(e, k) == CHOOSE i \in 1..Len(e) : e[i].k = k

\* the keys ks are those of the dict e, each once, the known ones first in
\* the canonical order, the others after them in the order of e
CanonicallyOrdered(ks, e) ==
    /\ Len(ks) = Len(e)
    /\ {ks[i] : i \in 1..Len(ks)} = {e[i].k : i \in 1..Len(e)}
    /\ \A i, j \in 1..Len(ks) :
          i < j => IF CanonicalRank(ks[i]) > 0
                   THEN CanonicalRank(ks[j]) = 0 \/ CanonicalRank(ks[i]) < CanonicalRank(ks[j])
                   ELSE CanonicalRank(ks[j]) = 0 /\ PositionIn(e, ks[i]) < PositionIn(e, ks[j])

\* C21: format_frontmatter (formater.py and TitleFixer) writes the known
\* fields that are present in the order layout, title, date, author,
\* comments, tags, categories, slug, type, weight, then the other fields in
\* their original order; every key of the input is written once and no key
\* is added.
C21_CanonicalFieldOrder ==
    (Returned("format_frontmatter") \/ Returned("TitleFixer_format_frontmatter"))
    => CanonicallyOrdered(KeysWritten(ret), call.arg)

\* a dict given as zz, weight, title has been written as title, weight, zz
C21_Witness ==
    /\ Returned("format_frontmatter")
    /\ Len(call.arg) = 3
    /\ call.arg[1].k = <<"zz">> /\ call.arg[2].k = K_weight /\ call.arg[3].k = K_title
    /\ KeysWritten(ret) = <<K_title, K_weight, <<"zz">>>>

\* the file name is yyyy-MM-dd-<rest>.md with a rest of one character or more
HasDatePrefix(f) ==
    /\ Len(f) >= 15
    /\ \A k \in {1, 2, 3, 4, 6, 7, 9, 10} : f[k] \in Digits
    /\ f[5] = "-" /\ f[8] = "-" /\ f[11] = "-"
    /\ EndsWith(f, <<".", "m", "d">>)

\* the name without its last three characters, the final ".md"
WithoutFinalSuffix(f) == SubSeq(f, 1, Len(f) - 3)

\* C22: extract_slug_from_filename returns <rest> for a file name of the
\* form yyyy-MM-dd-<rest>.md, and for every other file name the name with
\* only its final .md suffix removed, everything else kept.
C22_SlugKeepsName ==
    Returned("extract_slug_from_filename")
    => ret = IF HasDatePrefix(call.arg)
             THEN SubSeq(WithoutFinalSuffix(call.arg), 12, Len(call.arg) - 3)
             ELSE WithoutFinalSuffix(call.arg)

\* ------------------------------------------------------------------------
\* gesp_file_organizer.py: the source directory, the destination root, the
\* cache
\* ------------------------------------------------------------------------

\* organizer runs, one after the other on the same directories
MaxOrgRuns == 2

SrcFiles == 1..4

G_a == <<"2", "0", "2", "4", "-", "1", "1", "-", "0", "3", "-", "g", "e", "s", "p", "-", "a", ".", "m", "d">>

G_b == <<"2", "0", "2", "4", "-", "1", "1", "-", "0", "3", "-", "g", "e", "s", "p", "-", "b", ".", "m", "d">>

N_notes == <<"n", "o", "t", "e", "s", ".", "m", "d">>

\* files 1 and 2 have the same name in two subdirectories of the source
SrcName(s) == <<G_a, G_a, G_b, N_notes>>[s]

CategoryLines(level) == <<K_categories \o <<":">>, <<"-", " ">> \o level>>

\* a post as it is written: a title with the exam prefix, a short date, the
\* level among the categories
Post(title, level) ==
    Doc(<<HeaderLine(K_title, title), HeaderLine(K_date, D_hm)>> \o CategoryLines(level), Body_include)

T_real == GESP \o <<"san", "ji", "zhen", "ti", "fw,", "shi", "li">>

PostPractice == Post(T_prefixed, <<"er", "ji">>)

PostReal == Post(T_real, <<"san", "ji">>)

PostNoLevel == Post(T_prefixed, <<"misc">>)

SrcContents(s) ==
    IF s = 1 THEN {<<>>, PostPractice, PostReal}
    ELSE IF s = 2 THEN {<<>>, PostPractice}
    ELSE IF s = 3 THEN {<<>>, PostPractice, PostNoLevel, DocBadYaml}
    ELSE {PostPractice}

\* a path under the destination root: <<level, subdir, filename>>
Path(subdir, filename) == <<subdir[1], subdir[2], filename>>

P_practice_a == <<<<"2">>, PRACTICE, G_a>>

P_elsewhere_a == <<<<"1">>, <<"o", "t", "h", "e", "r", "s">>, G_a>>

P_practice_b == <<<<"2">>, PRACTICE, G_b>>

\* a document of the destination, formatted by an earlier run
Placed(slug, w) ==
    Doc(<<HeaderLine(K_title, T_plain), HeaderLine(K_date, D_canon), HeaderLine(K_slug, slug),
          HeaderLine(K_type, Docs), HeaderLine(K_weight, IntToStr(w))>>, Body_h2)

SLUG_a == <<"g", "e", "s", "p", "-", "a">>

SLUG_b == <<"g", "e", "s", "p", "-", "b">>

\* the destination roots a first run can find
Targets ==
    {[p \in A \cup B |-> IF p[3] = G_a THEN Placed(SLUG_a, 4) ELSE Placed(SLUG_b, 7)] :
        A \in {{}, {P_practice_a}, {P_elsewhere_a}}, B \in {{}, {P_practice_b}}}

\* the file names under the root: rglob("*.md")
NamesIn(t) == {p[3] : p \in DOMAIN t}

PathsOf(t, filename) == {p \in DOMAIN t : p[3] = filename}

\* what a scan of the root can record: one path for each name, the last one
\* the traversal meets
Scans(t) == {c \in [NamesIn(t) -> DOMAIN t] : \A n \in NamesIn(t) : c[n][3] = n}

NoCacheFile == [exists |-> FALSE, existed_files |-> <<>>]

\* load_cache: the content of the side file, empty when there is none
load_cache == IF cache_file.exists THEN cache_file.existed_files ELSE <<>>

NoPath == <<>>

\* the paths check_file_exists_in_target can return: the cached one, or with
\* the cache off the first one rglob(filename) meets
check_file_exists_in_target(filename) ==
    IF use_cache THEN (IF filename \in DOMAIN cache THEN {cache[filename]} ELSE {NoPath})
    ELSE IF PathsOf(target, filename) # {} THEN PathsOf(target, filename) ELSE {NoPath}

\* copy_plan[target_subdir].append(...), a new key going last
AddToPlan(plan, subdir, s) ==
    IF \E i \in 1..Len(plan) : plan[i].target_subdir = subdir
    THEN [i \in 1..Len(plan) |->
             IF plan[i].target_subdir = subdir THEN [plan[i] EXCEPT !.files = Append(@, s)] ELSE plan[i]]
    ELSE Append(plan, [target_subdir |-> subdir, files |-> <<s>>])

\* the file at path p written with content c
Written(t, p, c) == [q \in DOMAIN t \cup {p} |-> IF q = p THEN c ELSE t[q]]

\* get_max_weight_in_directory for the directory of path p under the root t
MaxWeightBeside(t, p) == MaxOf({WeightIn(t[q]) : q \in {r \in DOMAIN t : r[1] = p[1] /\ r[2] = p[2]}})

\* process_specific_files(copied_files) in the formater.py subprocess
RECURSIVE FormatAll(_, _)
FormatAll(t, file_paths) ==
    IF file_paths = <<>> THEN t
    ELSE FormatAll([t EXCEPT ![file_paths[1]] =
                       SpecificFile(@, file_paths[1], MaxWeightBeside(t, file_paths[1])).content],
                   Tail(file_paths))

\* ------------------------------------------------------------------------
\* gesp_file_organizer.py: a run (main, analyze_files, execute_copy_plan,
\* run_formatter)
\* ------------------------------------------------------------------------

\* main: the organizer is built with use_cache=True, so load_cache runs;
\* cache mode 2 rescans the destination and saves, mode 3 turns the cache off
OrgStartWith(cache_choice) ==
    /\ IF cache_choice = 2
       THEN /\ \E c \in Scans(target) : cache' = c /\ cache_file' = [exists |-> TRUE, existed_files |-> c]
            /\ use_cache' = TRUE
       ELSE /\ cache' = load_cache
            /\ use_cache' = (cache_choice = 1)
            /\ UNCHANGED cache_file

\* the start of a run whose cache mode is one of choices; md_files is
\* rglob("*.md") of the source directory
OrgStartIn(choices) ==
    /\ opc = "idle" /\ oruns < MaxOrgRuns
    /\ \E cache_choice \in choices : OrgStartWith(cache_choice)
    /\ md_files' = Listing({s \in SrcFiles : source[s] # <<>> /\ EndsWith(SrcName(s), DOT_MD)})
    /\ copy_plan' = <<>> /\ existed_files_map' = <<>> /\ copied_files' = <<>> /\ formatted' = <<>>
    /\ opc' = "analyze"
    /\ UNCHANGED <<source, target, oruns, fnVars, batchVars>>

OrgStart == OrgStartIn({1, 2, 3})

\* the file s that goes to target_subdir, found at existing_path or not
OrgDecide(s, target_subdir, existing_path) ==
    IF existing_path # NoPath
    THEN /\ existed_files_map' = Append(existed_files_map, [filename |-> SrcName(s), path |-> existing_path])
         /\ UNCHANGED copy_plan
    ELSE /\ copy_plan' = AddToPlan(copy_plan, target_subdir, s)
         /\ UNCHANGED existed_files_map

OrgAnalyzeWith(s, c) ==
    IF ~c.ok THEN UNCHANGED <<copy_plan, existed_files_map>>
    ELSE \E existing_path \in check_file_exists_in_target(SrcName(s)) : OrgDecide(s, c.subdir, existing_path)

\* analyze_files: one source file
OrgAnalyze ==
    /\ opc = "analyze" /\ md_files # <<>>
    /\ OrgAnalyzeWith(md_files[1], Classify(source[md_files[1]], SrcName(md_files[1])))
    /\ md_files' = Tail(md_files)
    /\ UNCHANGED <<source, target, cache_file, use_cache, cache, opc, oruns, copied_files, formatted,
                   fnVars, batchVars>>

\* after the analysis: nothing to copy ends the run; with the preview mode of
\* main the user may also decline the copy
OrgPlanDone ==
    /\ opc = "analyze" /\ md_files = <<>>
    /\ \E execute \in BOOLEAN :
          IF copy_plan # <<>> /\ execute
          THEN opc' = "copy" /\ UNCHANGED oruns
          ELSE opc' = "idle" /\ oruns' = oruns + 1
    /\ UNCHANGED <<source, target, cache_file, use_cache, cache, md_files, copy_plan, existed_files_map,
                   copied_files, formatted, fnVars, batchVars>>

\* the source file s copied to path p
OrgCopyTo(s, p) ==
    /\ target' = Written(target, p, source[s])
    /\ copied_files' = Append(copied_files, p)
    /\ cache' = IF use_cache THEN Written(cache, SrcName(s), p) ELSE cache

\* OrgCopyFailed counting the file as copied all the same
OrgCopyFailed_counted(p) ==
    /\ copied_files' = Append(copied_files, p)
    /\ UNCHANGED <<target, cache>>

\* shutil.copy2 raised for the file that was to go to path p: the except
\* clause counts an error and the loop goes on
OrgCopyFailed(p) == UNCHANGED <<target, copied_files, cache>>

\* execute_copy_plan: shutil.copy2 of the next file of the plan
OrgCopy ==
    /\ opc = "copy" /\ copy_plan # <<>>
    /\ \/ OrgCopyTo(copy_plan[1].files[1], Path(copy_plan[1].target_subdir, SrcName(copy_plan[1].files[1])))
       \/ OrgCopyFailed(Path(copy_plan[1].target_subdir, SrcName(copy_plan[1].files[1])))
    /\ copy_plan' = IF Len(copy_plan[1].files) = 1 THEN Tail(copy_plan)
                    ELSE <<[copy_plan[1] EXCEPT !.files = Tail(@)]>> \o Tail(copy_plan)
    /\ UNCHANGED <<source, cache_file, use_cache, opc, oruns, md_files, existed_files_map, formatted,
                   fnVars, batchVars>>

\* the end of execute_copy_plan saves the cache; then the user is asked
\* whether formater.py is to run on the copied files
OrgCopyDone ==
    /\ opc = "copy" /\ copy_plan = <<>>
    /\ cache_file' = IF use_cache /\ Len(copied_files) > 0
                     THEN [exists |-> TRUE, existed_files |-> cache] ELSE cache_file
    /\ \E run_formatter \in BOOLEAN :
          IF run_formatter /\ Len(copied_files) > 0
          THEN target' = FormatAll(target, copied_files) /\ formatted' = copied_files
          ELSE UNCHANGED <<target, formatted>>
    /\ opc' = "idle"
    /\ oruns' = oruns + 1
    /\ UNCHANGED <<source, use_cache, cache, md_files, copy_plan, existed_files_map, copied_files,
                   fnVars, batchVars>>

\* Outside the script: the destination is the content tree of a site, and a
\* file of it can be removed by hand between two runs.
DestinationEdited ==
    /\ opc = "idle" /\ oruns >= 1 /\ oruns < MaxOrgRuns
    /\ \E p \in DOMAIN target : target' = [q \in DOMAIN target \ {p} |-> target[q]]
    /\ UNCHANGED <<source, cache_file, use_cache, cache, opc, oruns, md_files, copy_plan,
                   existed_files_map, copied_files, formatted, fnVars, batchVars>>

\* the side file is missing or was saved by a refresh of this destination
InitOrg ==
    /\ \E c1 \in SrcContents(1), c2 \in SrcContents(2), c3 \in SrcContents(3), c4 \in SrcContents(4) :
          source = <<c1, c2, c3, c4>>
    /\ target \in Targets
    /\ \/ cache_file = NoCacheFile
       \/ \E c \in Scans(target) : cache_file = [exists |-> TRUE, existed_files |-> c]
    /\ use_cache = FALSE /\ cache = <<>> /\ opc = "idle" /\ oruns = 0
    /\ md_files = <<>> /\ copy_plan = <<>> /\ existed_files_map = <<>>
    /\ copied_files = <<>> /\ formatted = <<>>
    /\ FnIdle
    /\ BatchIdle

NextOrg == OrgStart \/ OrgAnalyze \/ OrgPlanDone \/ OrgCopy \/ OrgCopyDone \/ DestinationEdited

SpecOrg == InitOrg /\ [][NextOrg]_vars

\* Runs in cache mode on a destination nothing else changes: the first run
\* refreshes the cache from the filesystem (mode 2), a later one loads the
\* side file (mode 1) or refreshes again.
OrgStartCached == OrgStartIn(IF oruns = 0 THEN {2} ELSE {1, 2})

NextOrgCached == OrgStartCached \/ OrgAnalyze \/ OrgPlanDone \/ OrgCopy \/ OrgCopyDone

SpecOrgCached == InitOrg /\ [][NextOrgCached]_vars

\* C5: a source file whose name is already somewhere under the destination
\* root is reported as existing and is never copied, in any cache mode: a
\* classified file enters the copy plan only when no file of the destination
\* has its name, and no copy writes a file whose name was in the destination
\* before this run's copies.
C5_DuplicateNeverCopied ==
    [][/\ copy_plan' # copy_plan /\ opc = "analyze" => SrcName(md_files[1]) \notin NamesIn(target)
       /\ Len(copied_files') > Len(copied_files) =>
              \A q \in DOMAIN target :
                  q[3] = copied_files'[Len(copied_files')][3] => \E i \in 1..Len(copied_files) : copied_files[i] = q
      ]_vars

\* C6: the classifier's answer on existence agrees with the destination:
\* whenever it reports a source file as already existing, a file of that
\* name is under the destination root.
C6_ReportedExistingIsThere ==
    [][Len(existed_files_map') > Len(existed_files_map) =>
           existed_files_map'[Len(existed_files_map')].filename \in NamesIn(target)]_vars

\* C24: in cache mode, after refresh_cache_from_filesystem and through the
\* copies that follow with no outside change to the destination, the file
\* names of the cache are the .md file names under the destination root and
\* every copied file has a cache entry that maps its name to its path
\* relative to the root.
C24_CacheInStep ==
    use_cache =>
        /\ DOMAIN cache = NamesIn(target)
        /\ \A i \in 1..Len(copied_files) :
              copied_files[i][3] \in DOMAIN cache /\ cache[copied_files[i][3]] = copied_files[i]

\* the first half of C24 alone: the names of the cache are the names under
\* the root
CacheNamesInStep == use_cache => DOMAIN cache = NamesIn(target)

\* the paths the run reported as already existing
ReportedExisting == {existed_files_map[j].path : j \in 1..Len(existed_files_map)}

C26_NameCopiedOnce ==
    \A i, j \in 1..Len(copied_files) : i # j => copied_files[i][3] # copied_files[j][3]

\* the name of the source file matches yyyy-MM-dd-gesp-*.md
MatchesExamPattern(name) ==
    /\ Len(name) >= 19 /\ IsYmdAt(name, 1)
    /\ SubSeq(name, 11, 16) = <<"-", "g", "e", "s", "p", "-">>
    /\ SubSeq(name, Len(name) - 2, Len(name)) = <<".", "m", "d">>

\* the header of the text parses and one of its categories holds a level
\* token
HasLevelCategory(content) ==
    /\ parse_frontmatter(content).fm.t = "map"
    /\ HasKey(parse_frontmatter(content).fm.e, K_categories)
    /\ GetKey(parse_frontmatter(content).fm.e, K_categories).t = "list"
    /\ \E i \in 1..Len(GetKey(parse_frontmatter(content).fm.e, K_categories).l), n \in 1..8 :
          Contains(GetKey(parse_frontmatter(content).fm.e, K_categories).l[i].s, LevelToken(n))

Classifiable(s) == MatchesExamPattern(SrcName(s)) /\ HasLevelCategory(source[s])

\* C20: a source file enters the copy plan or the report of existing files
\* only if its name matches the exam-file pattern, its frontmatter parses and
\* one of its categories holds a level token; any other file is never
\* copied.
C20_OnlyClassifiableFilesPlanned ==
    [][/\ \A i \in 1..Len(copy_plan') : \A j \in 1..Len(copy_plan'[i].files) :
              Classifiable(copy_plan'[i].files[j])
       /\ Len(existed_files_map') > Len(existed_files_map) => Classifiable(md_files[1])
       /\ Len(copied_files') > Len(copied_files) => Classifiable(copy_plan[1].files[1])
      ]_vars

\* a run has copied a file while the source held a file with another name
\* and a file of an exam name whose header is not valid YAML, and neither of
\* the two is in the destination
C20_Witness ==
    /\ opc = "idle" /\ oruns = 1 /\ copied_files # <<>>
    /\ source[3] = DocBadYaml /\ source[4] # <<>>
    /\ SrcName(3) \notin NamesIn(target) /\ SrcName(4) \notin NamesIn(target)

====
